---- MODULE Spec2Model ----
(***************************************************************************)
(* CPM scheduling and project crashing of the Project Management Tool.     *)
(*                                                                         *)
(*   ProjectCrashingService  (src/unnamed/part_002)                        *)
(*   ProjectScheduler        (src/src/services/ProjectScheduler.ts)        *)
(*   FSCalculationStrategy   (src/src/models/Dependency.ts)                *)
(*   ProjectCrashingProvider (src/src/hooks/ProjectCrashingContext.tsx)    *)
(*                                                                         *)
(* Task ids are the naturals 1..n; a task list is a sequence of task       *)
(* records in list order.  All times are integers, so the EPSILON          *)
(* comparisons of the source are exact comparisons here.  An optional      *)
(* number (earlyStart?: number) is a tuple: <<>> is undefined, <<v>> is    *)
(* the number v, <<0, 0>> is NaN.                                          *)
(***************************************************************************)
EXTENDS Integers, Sequences, FiniteSets

VARIABLES
    pc,                          \* position of the running operation
    tasks,                       \* the task objects the caller holds
    shared,                      \* TRUE iff the operation works on the caller's objects
    indirectCostInput,           \* crashProject argument
    reductionPerUnitInput,       \* crashProject argument
    currentTasks,                \* crashProject: currentTasks
    crashedTasksHistory,         \* crashProject: crashedTasksHistory
    historicalPaths,             \* crashProject: historicalPaths
    costAnalysis,                \* crashProject: costAnalysis
    iteration,                   \* crashProject: iteration
    previousCommittedMaxDuration,\* crashProject: previousCommittedMaxDuration
    initialMaxDuration,          \* crashProject: initialMaxDuration
    attempt,                     \* crashProject: what the last loop pass selected
    thisTasks,                   \* ProjectScheduler: this.tasks
    thisPaths,                   \* ProjectScheduler: this.paths
    thisCriticalPaths,           \* ProjectScheduler: this.criticalPaths
    slackResult,                 \* what calculateSlackTimes returned
    ctx,                         \* ProjectCrashingProvider: its state
    op,                          \* ProjectCrashingProvider: the operation called last
    edits,                       \* ProjectCrashingProvider: the edits made so far
    project,                     \* useProjectData: its state
    slider                       \* CrashingIterationSlider: its state and its timers

crashVars == <<indirectCostInput, reductionPerUnitInput, currentTasks,
               crashedTasksHistory, historicalPaths, costAnalysis, iteration,
               previousCommittedMaxDuration, initialMaxDuration, attempt>>

schedVars == <<thisTasks, thisPaths, thisCriticalPaths>>

ctxVars == <<ctx, op, edits>>

hookVars == <<project, slider>>

vars == <<pc, tasks, shared, crashVars, schedVars, slackResult, ctxVars, hookVars>>

----------------------------------------------------------------------------
(* Bounds of the model *)

NumTasks == 3        \* at most this many tasks in a task list
MaxTime == 2         \* normalTime ranges over 1..MaxTime
MaxSlope == 3        \* slope of a crashable task ranges over 0..MaxSlope
MaxReduction == 2    \* reductionPerUnit ranges over 0..MaxReduction
FewTasks == 2        \* at most this many tasks in a list of long tasks
LongTime == 4        \* normalTime of a long task ranges over 1..LongTime

IndirectCosts == {4}
NormalCosts == {5}
Lags == {-2, 0, 1}

----------------------------------------------------------------------------
(* Numbers of the source that have no integer of their own *)

\* JavaScript's Infinity: larger than every number the model forms
Infinity == 1000 * 1000

\* Number.MAX_SAFE_INTEGER, the slope addCrashTask stores for a task that
\* cannot be crashed; any value above every crashable slope behaves alike.
MaxSafeInteger == Infinity - 1

\* Math.abs(a - b) < EPSILON on integers
NearlyEqual(a, b) == a = b

\* x || Infinity
OrInfinity(x) == IF x = 0 THEN Infinity ELSE x

\* x || 0
OrZero(x) == x

\* a + b where either may be Infinity
Plus(a, b) == IF a = Infinity \/ b = Infinity THEN Infinity ELSE a + b

Undefined == <<>>
NaN == <<0, 0>>
Num(v) == <<v>>

----------------------------------------------------------------------------
(* Sequences *)

RECURSIVE SumSeq(_)
SumSeq(s) == IF s = <<>> THEN 0 ELSE Head(s) + SumSeq(Tail(s))

RECURSIVE MaxSeq(_, _)
\* Math.max(m, ...s)
MaxSeq(m, s) ==
    IF s = <<>> THEN m
    ELSE MaxSeq(IF Head(s) > m THEN Head(s) ELSE m, Tail(s))

Range(s) == {s[i] : i \in DOMAIN s}

\* F(from) \o F(from + 1) \o ... \o F(to): a loop that appends to an array
RECURSIVE Flat(_, _, _)
Flat(F(_), from, to) ==
    IF from > to THEN <<>> ELSE F(from) \o Flat(F, from + 1, to)

\* Array.prototype.filter keeping the positions, as an increasing index sequence
IndicesWhere(Test(_), from, to) ==
    Flat(LAMBDA i : IF Test(i) THEN <<i>> ELSE <<>>, from, to)

\* s.map(F)
MapSeq(s, F(_)) == [i \in DOMAIN s |-> F(s[i])]

\* the elements of s that pass Test and occur nowhere earlier in s
FirstOccurrences(s, Test(_)) ==
    Flat(LAMBDA i : IF Test(s[i]) /\ \A j \in 1..(i - 1) : s[j] # s[i]
                    THEN <<s[i]>> ELSE <<>>, 1, Len(s))

\* the first position of s whose total-order key is least (a stable ascending
\* sort followed by [0])
FirstMin(s, Key(_)) ==
    CHOOSE i \in DOMAIN s :
        /\ \A j \in DOMAIN s : Key(s[i]) <= Key(s[j])
        /\ \A j \in DOMAIN s : j < i => Key(s[j]) > Key(s[i])

----------------------------------------------------------------------------
(* Task lists *)

\* tasks.find(t => t.id === id); 0 when there is none
IndexOfId(ts, id) ==
    IF \E i \in DOMAIN ts : ts[i].id = id
    THEN CHOOSE i \in DOMAIN ts : ts[i].id = id /\ \A j \in 1..(i - 1) : ts[j].id # id
    ELSE 0

PredIds(t) == {p.taskId : p \in t.predecessors}

\* allTasks.filter(task => task.predecessors.some(pred => pred.taskId === id))
SuccessorIndices(ts, id) ==
    IndicesWhere(LAMBDA i : id \in PredIds(ts[i]), 1, Len(ts))

\* tasks.filter(task => task.predecessors.length === 0)
StartIndices(ts) ==
    IndicesWhere(LAMBDA i : ts[i].predecessors = {}, 1, Len(ts))

\* tasks.filter(task => !tasks.some(t => t.predecessors.some(p => p.taskId === task.id)))
EndIndices(ts) ==
    IndicesWhere(LAMBDA i : \A j \in DOMAIN ts : ts[i].id \notin PredIds(ts[j]),
                 1, Len(ts))

----------------------------------------------------------------------------
(* ProjectCrashingService: paths *)

\* the duration a path's task id contributes: taskMap.get(taskId)?.duration || 0
DurationOfId(ts, id) ==
    IF IndexOfId(ts, id) = 0 THEN 0 ELSE ts[IndexOfId(ts, id)].duration

PathDuration(ts, nodes) == SumSeq(MapSeq(nodes, LAMBDA id : DurationOfId(ts, id)))

RECURSIVE findPaths(_, _, _, _)
findPaths(ts, currentTaskId, currentPathNodes, visitedOnThisPath) ==
    IF currentTaskId \in visitedOnThisPath THEN <<>>
    ELSE LET newPathNodes == Append(currentPathNodes, currentTaskId)
             successorTasks == SuccessorIndices(ts, currentTaskId)
         IN  IF successorTasks = <<>>
             THEN << [tasks |-> newPathNodes, durations |-> <<0>>, isCritical |-> FALSE] >>
             ELSE Flat(LAMBDA k : findPaths(ts, ts[successorTasks[k]].id, newPathNodes,
                                            visitedOnThisPath \cup {currentTaskId}),
                       1, Len(successorTasks))

calculatePathDurations(paths, ts) ==
    LET withDuration == MapSeq(paths, LAMBDA p :
                            [p EXCEPT !.durations = <<PathDuration(ts, p.tasks)>>])
        maxDuration == MaxSeq(0, MapSeq(withDuration, LAMBDA p : p.durations[1]))
    IN  MapSeq(withDuration, LAMBDA p :
                [p EXCEPT !.isCritical = NearlyEqual(p.durations[1], maxDuration)])

calculateAllPaths(ts) ==
    LET startTasks == StartIndices(ts)
    IN  IF startTasks = <<>> THEN <<>>
        ELSE calculatePathDurations(
                 Flat(LAMBDA k : findPaths(ts, ts[startTasks[k]].id, <<>>, {}),
                      1, Len(startTasks)),
                 ts)

\* paths.length > 0 ? Math.max(0, ...paths.map(p => p.durations[0])) : 0
MaxPathDuration(paths) == MaxSeq(0, MapSeq(paths, LAMBDA p : p.durations[1]))

----------------------------------------------------------------------------
(* ProjectCrashingService.crashProject: one pass of the loop *)

\* JSON.parse(JSON.stringify(tasks)).map(task => ({...task, duration: task.normalTime}))
InitialTasksState(ts) == MapSeq(ts, LAMBDA t : [t EXCEPT !.duration = t.normalTime])

\* historicalPaths.filter(p => p.durations.length > iteration &&
\*     Math.abs(p.durations[iteration] - previousCommittedMaxDuration) < EPSILON)
CurrentCriticalPaths(paths, iter, prevMax) ==
    IndicesWhere(LAMBDA k : /\ Len(paths[k].durations) > iter
                            /\ NearlyEqual(paths[k].durations[iter + 1], prevMax),
                 1, Len(paths))

\* task && (task.maxCrashTime || 0) > 0 && task.duration > task.crashTime
IsCrashable(ts, id) ==
    /\ IndexOfId(ts, id) # 0
    /\ ts[IndexOfId(ts, id)].maxCrashTime > 0
    /\ ts[IndexOfId(ts, id)].duration > ts[IndexOfId(ts, id)].crashTime

\* a collection that looks at the first critical path only
CrashableTasksOnFirstCriticalPath(ts, paths, critical) ==
    FirstOccurrences(paths[critical[1]].tasks, LAMBDA id : IsCrashable(ts, id))

\* the ids of crashableTasksOnCurrentCriticalPaths, in the order they are pushed
CrashableTasksOnCurrentCriticalPaths(ts, paths, critical) ==
    FirstOccurrences(
        Flat(LAMBDA k : paths[critical[k]].tasks, 1, Len(critical)),
        LAMBDA id : IsCrashable(ts, id))

SlopeOfId(ts, id) == ts[IndexOfId(ts, id)].slope

\* crashableTasksOnCurrentCriticalPaths.sort((a, b) => (a.slope || Infinity) -
\*     (b.slope || Infinity)) followed by [0]
MinSlopeTask(ts, crashable) ==
    crashable[FirstMin(crashable, LAMBDA id : OrInfinity(SlopeOfId(ts, id)))]

\* crashableTasksOnCurrentCriticalPaths.filter(task =>
\*     criticalTaskSets.every(taskSet => taskSet.has(task.id)))
CommonTasks(paths, critical, crashable) ==
    SelectSeq(crashable,
              LAMBDA id : \A k \in DOMAIN critical : id \in Range(paths[critical[k]].tasks))

\* generateAllPossibleCombinations: the single tasks that are not common,
\* every pair, and every triple when three or more paths are critical
generateAllPossibleCombinations(crashable, common, nCritical) ==
    LET n == Len(crashable)
        singles == Flat(LAMBDA i : IF crashable[i] \in Range(common) THEN <<>>
                                   ELSE << <<crashable[i]>> >>, 1, n)
        pairs == Flat(LAMBDA i : Flat(LAMBDA j : << <<crashable[i], crashable[j]>> >>,
                                      i + 1, n), 1, n)
        triples == Flat(LAMBDA i : Flat(LAMBDA j :
                        Flat(LAMBDA k : << <<crashable[i], crashable[j], crashable[k]>> >>,
                             j + 1, n), i + 1, n), 1, n)
    IN  singles \o pairs \o (IF nCritical >= 3 THEN triples ELSE <<>>)

\* allCandidates: the common tasks one by one, then the combinations
AllCandidates(crashable, common, nCritical) ==
    MapSeq(common, LAMBDA id : <<id>>)
        \o generateAllPossibleCombinations(crashable, common, nCritical)

\* combo.reduce((sum, task) => sum + (task.slope || Infinity), 0)
RECURSIVE TotalSlope(_, _)
TotalSlope(ts, combo) ==
    IF combo = <<>> THEN 0
    ELSE Plus(OrInfinity(SlopeOfId(ts, Head(combo))), TotalSlope(ts, Tail(combo)))

\* the simulation of a candidate: each of its tasks one unit shorter, unless
\* at its crash time
SimTasks(ts, combo) ==
    MapSeq(ts, LAMBDA t : IF t.id \in Range(combo) /\ t.duration > t.crashTime
                          THEN [t EXCEPT !.duration = t.duration - 1] ELSE t)

\* one element of evaluatedCandidates
EvaluateCandidate(ts, paths, critical, prevMax, combo) ==
    LET simPaths == calculateAllPaths(SimTasks(ts, combo))
        newMaxDuration == MaxPathDuration(simPaths)
        coveredPathIndices ==
            {c \in DOMAIN critical :
                \E q \in DOMAIN simPaths :
                    /\ simPaths[q].durations[1] < prevMax
                    /\ simPaths[q].tasks = paths[critical[c]].tasks}
    IN  [tasks |-> combo,
         taskCount |-> Len(combo),
         totalSlope |-> TotalSlope(ts, combo),
         reduction |-> prevMax - newMaxDuration,
         coveredPathsCount |-> Cardinality(coveredPathIndices),
         allPathsCovered |-> Cardinality(coveredPathIndices) = Len(critical)]

\* evaluatedCandidates.filter(c => c.reduction > 0 && c.allPathsCovered)
EffectiveCandidates(ts, paths, critical, prevMax, crashable) ==
    SelectSeq(
        MapSeq(AllCandidates(crashable, CommonTasks(paths, critical, crashable),
                             Len(critical)),
               LAMBDA combo : EvaluateCandidate(ts, paths, critical, prevMax, combo)),
        LAMBDA c : c.reduction > 0 /\ c.allPathsCovered)

\* the three stable sorts and filters that pick bestCandidate
BestCandidate(effective) ==
    LET minSlope == effective[FirstMin(effective, LAMBDA c : c.totalSlope)].totalSlope
        minSlopeCandidates == SelectSeq(effective, LAMBDA c : c.totalSlope = minSlope)
        maxReduction ==
            minSlopeCandidates[FirstMin(minSlopeCandidates, LAMBDA c : 0 - c.reduction)].reduction
        maxReductionCandidates ==
            SelectSeq(minSlopeCandidates, LAMBDA c : c.reduction = maxReduction)
    IN  maxReductionCandidates[FirstMin(maxReductionCandidates, LAMBDA c : c.taskCount)]

\* tasksToCompressFromSelection and the branch that filled it
SelectTasksToCompress(ts, paths, critical, prevMax, crashable) ==
    IF Len(critical) = 1
    THEN [branch |-> "single", tasks |-> <<MinSlopeTask(ts, crashable)>>]
    ELSE LET effective == EffectiveCandidates(ts, paths, critical, prevMax, crashable)
         IN  IF effective # <<>>
             THEN [branch |-> "candidate", tasks |-> BestCandidate(effective).tasks]
             ELSE [branch |-> "fallback", tasks |-> crashable]

\* taskInHypo && taskInHypo.duration > taskInHypo.crashTime &&
\*     (taskInHypo.maxCrashTime || 0) >= crashTimeReduction
CanModify(t) == t.duration > t.crashTime /\ t.maxCrashTime >= 1

\* an application that takes two units off a selected task
HypotheticalNextTasksStateTwoUnits(ts, selected) ==
    MapSeq(ts, LAMBDA t : IF t.id \in Range(selected) /\ CanModify(t)
                          THEN [t EXCEPT !.duration = t.duration - 2,
                                         !.maxCrashTime = t.maxCrashTime - 2]
                          ELSE t)

\* an application that shortens a selected task and keeps its maxCrashTime
HypotheticalNextTasksStateKeepCapacity(ts, selected) ==
    MapSeq(ts, LAMBDA t : IF t.id \in Range(selected) /\ CanModify(t)
                          THEN [t EXCEPT !.duration = t.duration - 1]
                          ELSE t)

\* hypotheticalNextTasksState after the forEach over the selection
HypotheticalNextTasksState(ts, selected) ==
    MapSeq(ts, LAMBDA t : IF t.id \in Range(selected) /\ CanModify(t)
                          THEN [t EXCEPT !.duration = t.duration - 1,
                                         !.maxCrashTime = t.maxCrashTime - 1]
                          ELSE t)

\* the selected tasks the forEach modified, in selection order
ActuallyModified(ts, selected) ==
    SelectSeq(selected, LAMBDA id : IndexOfId(ts, id) # 0 /\ CanModify(ts[IndexOfId(ts, id)]))

\* a step cost that counts the first modified task only
ActualCrashCostFirstTaskOnly(ts, selected) ==
    IF ActuallyModified(ts, selected) = <<>> THEN 0
    ELSE OrZero(SlopeOfId(ts, ActuallyModified(ts, selected)[1]))

\* actualCrashCostForThisStep
ActualCrashCost(ts, selected) ==
    SumSeq(MapSeq(ActuallyModified(ts, selected), LAMBDA id : OrZero(SlopeOfId(ts, id))))

\* an indirect cost that is lowered by one unit's reduction at every commit
NewIndirectCostValueOneUnit(indirectCost, daysReducedTotal, reductionPerUnit) ==
    indirectCost - reductionPerUnit

\* newIndirectCostValue = indirectCostInput - (daysReducedTotal * reductionPerUnitInput)
NewIndirectCostValue(indirectCost, daysReducedTotal, reductionPerUnit) ==
    indirectCost - (daysReducedTotal * reductionPerUnit)

\* a commit check that also accepts a step that leaves the duration as it was
CommitCheckNotStrict(hypotheticalNewMaxDuration, prevMax) ==
    hypotheticalNewMaxDuration <= prevMax

\* the commit check: hypotheticalNewMaxDuration < previousCommittedMaxDuration - EPSILON
CommitCheck(hypotheticalNewMaxDuration, prevMax) == hypotheticalNewMaxDuration < prevMax

\* the commit's update of historicalPaths: pad durations to the new iteration
\* index and store the path's new duration there
RECURSIVE PadDurations(_, _)
PadDurations(durations, iter) ==
    IF Len(durations) > iter THEN durations
    ELSE PadDurations(Append(durations,
                             IF Len(durations) > 0 THEN durations[Len(durations)] ELSE 0),
                      iter)

\* an update that stores the new project duration on every path
CommitPathsStoringMaximum(paths, ts, iter, newMax) ==
    MapSeq(paths, LAMBDA p :
        [p EXCEPT !.durations = [PadDurations(p.durations, iter) EXCEPT ![iter + 1] = newMax],
                  !.isCritical = TRUE])

CommitPaths(paths, ts, iter, newMax) ==
    MapSeq(paths, LAMBDA p :
        LET newDurationForPath == PathDuration(ts, p.tasks)
        IN  [p EXCEPT !.durations = [PadDurations(p.durations, iter)
                                        EXCEPT ![iter + 1] = newDurationForPath],
                      !.isCritical = NearlyEqual(newDurationForPath, newMax)])

\* costAnalysis[costAnalysis.length - 1].isCrashPoint = true
MarkCrashPoint(ca) ==
    IF Len(ca) > 0 THEN [ca EXCEPT ![Len(ca)].isCrashPoint = TRUE] ELSE ca

\* a reduce with <= in place of <: the last entry of least total cost
MinCostIndexLast(ca) ==
    CHOOSE i \in DOMAIN ca :
        /\ \A j \in DOMAIN ca : ca[i].totalCost <= ca[j].totalCost
        /\ \A j \in DOMAIN ca : j > i => ca[j].totalCost > ca[i].totalCost

\* costAnalysis.reduce((minIndex, item, index, arr) =>
\*     item.totalCost < arr[minIndex].totalCost ? index : minIndex, 0)
MinCostIndex(ca) == FirstMin(ca, LAMBDA item : item.totalCost)

----------------------------------------------------------------------------
(* Optional numbers *)

IsNum(x) == Len(x) = 1

\* x + k: undefined + k and NaN + k are NaN
AddNum(x, k) == IF IsNum(x) THEN Num(x[1] + k) ELSE NaN

\* a > b: false when either side is undefined or NaN
GreaterNum(a, b) == IsNum(a) /\ IsNum(b) /\ a[1] > b[1]

\* a - b
SubNum(a, b) == IF IsNum(a) /\ IsNum(b) THEN Num(a[1] - b[1]) ELSE NaN

\* Math.max(a, b)
MaxNum(a, b) ==
    IF ~IsNum(a) \/ ~IsNum(b) THEN NaN ELSE IF b[1] > a[1] THEN b ELSE a

\* Math.min(a, b), where a = Undefined stands for Number.MAX_VALUE
MinNum(a, b) ==
    IF a = NaN \/ ~IsNum(b) THEN NaN
    ELSE IF a = Undefined THEN b
    ELSE IF b[1] < a[1] THEN b ELSE a

\* x || 0 for an optional number
NumOrZero(x) == IF IsNum(x) THEN x[1] ELSE 0

----------------------------------------------------------------------------
(* ProjectScheduler *)

\* task.predecessors in array order; predecessor arrays are kept in
\* ascending taskId order
RECURSIVE PredList(_)
PredList(preds) ==
    IF preds = {} THEN <<>>
    ELSE LET first == CHOOSE p \in preds : \A q \in preds : p.taskId <= q.taskId
         IN  <<first>> \o PredList(preds \ {first})

\* task.predecessors.find(p => p.taskId === id): the set holding it, or {}
FindPred(t, id) == {p \in t.predecessors : p.taskId = id}

\* isCyclic(taskId) of validateNoCyclicDependencies, on the closure's
\* visited and recStack sets; the result carries both sets as left behind
RECURSIVE isCyclic(_, _, _)
RECURSIVE isCyclicPreds(_, _, _)
isCyclic(ts, taskId, st) ==
    IF taskId \in st.visited
    THEN [st EXCEPT !.recStack = @ \ {taskId}, !.cyclic = FALSE]
    ELSE LET entered == [st EXCEPT !.visited = @ \cup {taskId},
                                   !.recStack = @ \cup {taskId}]
             k == IndexOfId(ts, taskId)
             after == IF k = 0 THEN [entered EXCEPT !.cyclic = FALSE]
                      ELSE isCyclicPreds(ts, PredList(ts[k].predecessors), entered)
         IN  IF after.cyclic THEN after
             ELSE [after EXCEPT !.recStack = @ \ {taskId}]

isCyclicPreds(ts, preds, st) ==
    IF preds = <<>> THEN [st EXCEPT !.cyclic = FALSE]
    ELSE LET pred == Head(preds)
         IN  IF pred.taskId \notin st.visited
             THEN LET sub == isCyclic(ts, pred.taskId, st)
                  IN  IF sub.cyclic THEN sub
                      ELSE IF pred.taskId \in sub.recStack
                           THEN [sub EXCEPT !.cyclic = TRUE]
                           ELSE isCyclicPreds(ts, Tail(preds), sub)
             ELSE IF pred.taskId \in st.recStack
                  THEN [st EXCEPT !.cyclic = TRUE]
                  ELSE isCyclicPreds(ts, Tail(preds), st)

\* the for loop of validateNoCyclicDependencies from task index k on:
\* TRUE iff it throws
RECURSIVE ValidationThrows(_, _, _)
ValidationThrows(ts, k, st) ==
    IF k > Len(ts) THEN FALSE
    ELSE IF ts[k].id \in st.visited THEN ValidationThrows(ts, k + 1, st)
         ELSE LET sub == isCyclic(ts, ts[k].id, st)
              IN  sub.cyclic \/ ValidationThrows(ts, k + 1, sub)

\* a validation that searches from the first task only
validateFromFirstTaskOnly(ts) ==
    isCyclic(ts, ts[1].id, [visited |-> {}, recStack |-> {}, cyclic |-> FALSE]).cyclic

\* ProjectScheduler.validateNoCyclicDependencies: TRUE iff it throws
validateNoCyclicDependencies(ts) ==
    ValidationThrows(ts, 1, [visited |-> {}, recStack |-> {}, cyclic |-> FALSE])

\* visit(taskId) of topologicalSort, on the closure's visited set and result
\* (a sequence of task indices)
RECURSIVE visit(_, _, _)
RECURSIVE visitPreds(_, _, _)
visit(ts, taskId, st) ==
    IF taskId \in st.visited THEN st
    ELSE LET entered == [st EXCEPT !.visited = @ \cup {taskId}]
             k == IndexOfId(ts, taskId)
         IN  IF k = 0 THEN entered
             ELSE LET after == visitPreds(ts, PredList(ts[k].predecessors), entered)
                  IN  [after EXCEPT !.result = Append(@, k)]

visitPreds(ts, preds, st) ==
    IF preds = <<>> THEN st
    ELSE visitPreds(ts, Tail(preds), visit(ts, Head(preds).taskId, st))

RECURSIVE topologicalSortFrom(_, _, _)
topologicalSortFrom(ts, k, st) ==
    IF k > Len(ts) THEN st.result
    ELSE topologicalSortFrom(ts, k + 1, visit(ts, ts[k].id, st))

\* ProjectScheduler.topologicalSort: the indices of this.tasks in result order
SchedulerTopologicalSort(ts) ==
    topologicalSortFrom(ts, 1, [visited |-> {}, result |-> <<>>])

Reverse(s) == [i \in DOMAIN s |-> s[Len(s) + 1 - i]]

\* FSCalculationStrategy.calculateEarlyDates(fromTask, toTask, lag): toTask after it
StrategyEarlyDates(fromTask, toTask, lag) ==
    LET possibleStart == AddNum(fromTask.earlyFinish, lag)
    IN  IF toTask.earlyStart = Undefined \/ GreaterNum(possibleStart, toTask.earlyStart)
        THEN [toTask EXCEPT !.earlyStart = possibleStart,
                            !.earlyFinish = AddNum(possibleStart, toTask.duration)]
        ELSE toTask

\* lines 127-133: the strategy applied to every task that lists ts[k] as a
\* predecessor (never ts[k] itself: the validation has passed)
PushEarlyToSuccessors(ts, k) ==
    [j \in DOMAIN ts |->
        IF FindPred(ts[j], ts[k].id) # {}
        THEN StrategyEarlyDates(ts[k], ts[j],
                                (CHOOSE p \in FindPred(ts[j], ts[k].id) : TRUE).lag)
        ELSE ts[j]]

\* lines 137-145: maxEarlyStart over the predecessors that have an earlyFinish
RECURSIVE MaxEarlyStart(_, _, _)
MaxEarlyStart(ts, preds, maxEarlyStart) ==
    IF preds = <<>> THEN maxEarlyStart
    ELSE LET pred == Head(preds)
             k == IndexOfId(ts, pred.taskId)
         IN  IF k # 0 /\ ts[k].earlyFinish # Undefined
             THEN MaxEarlyStart(ts, Tail(preds),
                                MaxNum(maxEarlyStart, AddNum(ts[k].earlyFinish, pred.lag)))
             ELSE MaxEarlyStart(ts, Tail(preds), maxEarlyStart)

\* lines 125-150: the body of the loop for the task at index k
EarlyDatesOf(ts, k) ==
    LET pushed == PushEarlyToSuccessors(ts, k)
        maxEarlyStart == MaxEarlyStart(pushed, PredList(pushed[k].predecessors), Num(0))
    IN  IF pushed[k].predecessors # {}
        THEN [pushed EXCEPT ![k].earlyStart = maxEarlyStart,
                            ![k].earlyFinish = AddNum(maxEarlyStart, pushed[k].duration)]
        ELSE pushed

RECURSIVE EarlyDatesLoop(_, _)
EarlyDatesLoop(ts, sortedTasks) ==
    IF sortedTasks = <<>> THEN ts
    ELSE EarlyDatesLoop(EarlyDatesOf(ts, Head(sortedTasks)), Tail(sortedTasks))

\* ProjectScheduler.calculateEarlyDates
calculateEarlyDates(ts) ==
    LET cleared == MapSeq(ts, LAMBDA t :
                       IF t.predecessors = {}
                       THEN [t EXCEPT !.earlyStart = Num(0), !.earlyFinish = Num(t.duration)]
                       ELSE [t EXCEPT !.earlyStart = Undefined, !.earlyFinish = Undefined])
    IN  EarlyDatesLoop(cleared, SchedulerTopologicalSort(cleared))

\* ProjectScheduler.findEndTasks
findEndTasks(ts) == EndIndices(ts)

\* the earlyFinish of the first end task
FirstEarlyFinish(ts, endTasks) == NumOrZero(ts[endTasks[1]].earlyFinish)

\* Math.max(...endTasks.map(task => task.earlyFinish || 0)) over a non-empty
\* list
MaxEarlyFinish(ts, endTasks) ==
    LET finishes == MapSeq(endTasks, LAMBDA k : NumOrZero(ts[k].earlyFinish))
    IN  MaxSeq(finishes[1], finishes)

\* ProjectScheduler.getProjectDuration
getProjectDuration(ts) ==
    IF findEndTasks(ts) = <<>> THEN 0 ELSE MaxEarlyFinish(ts, findEndTasks(ts))

\* lines 186-195: minLateFinish over the successors that have a lateStart;
\* Undefined stands for Number.MAX_VALUE
RECURSIVE MinLateFinish(_, _, _, _)
MinLateFinish(ts, k, successors, minLateFinish) ==
    IF successors = <<>> THEN minLateFinish
    ELSE LET successor == ts[Head(successors)]
             pred == FindPred(successor, ts[k].id)
             lag == IF pred # {} THEN (CHOOSE p \in pred : TRUE).lag ELSE 0
             lateFinish == AddNum(successor.lateStart, 0 - lag)
         IN  IF successor.lateStart # Undefined
             THEN MinLateFinish(ts, k, Tail(successors), MinNum(minLateFinish, lateFinish))
             ELSE MinLateFinish(ts, k, Tail(successors), minLateFinish)

\* a loop body that takes the successors' lateStart without the lag
LateDatesOfWithoutLag(ts, k) ==
    LET successors == SuccessorIndices(ts, ts[k].id)
        starts == {ts[j].lateStart[1] : j \in {i \in Range(successors) :
                                                   IsNum(ts[i].lateStart)}}
    IN  IF starts # {}
        THEN LET least == CHOOSE m \in starts : \A x \in starts : m <= x
             IN  [ts EXCEPT ![k].lateFinish = Num(least),
                            ![k].lateStart = Num(least - ts[k].duration)]
        ELSE ts

\* lines 179-202: the body of the loop for the task at index k
LateDatesOf(ts, k) ==
    LET successors == SuccessorIndices(ts, ts[k].id)
        minLateFinish == MinLateFinish(ts, k, successors, Undefined)
    IN  IF successors # <<>> /\ minLateFinish # Undefined
        THEN [ts EXCEPT ![k].lateFinish = minLateFinish,
                        ![k].lateStart = AddNum(minLateFinish, 0 - ts[k].duration)]
        ELSE ts

RECURSIVE LateDatesLoop(_, _)
LateDatesLoop(ts, reversedSortedTasks) ==
    IF reversedSortedTasks = <<>> THEN ts
    ELSE LateDatesLoop(LateDatesOf(ts, Head(reversedSortedTasks)), Tail(reversedSortedTasks))

\* ProjectScheduler.calculateLateDates (some end task exists)
calculateLateDates(ts) ==
    LET endTasks == findEndTasks(ts)
        projectDuration == MaxEarlyFinish(ts, endTasks)
        cleared == [k \in DOMAIN ts |->
                       IF k \in Range(endTasks)
                       THEN [ts[k] EXCEPT !.lateFinish = Num(projectDuration),
                                          !.lateStart = Num(projectDuration - ts[k].duration)]
                       ELSE [ts[k] EXCEPT !.lateFinish = Undefined, !.lateStart = Undefined]]
    IN  LateDatesLoop(cleared, Reverse(SchedulerTopologicalSort(cleared)))

\* ProjectScheduler.calculateSlackAndMarkCriticalPath
calculateSlackAndMarkCriticalPath(ts) ==
    MapSeq(ts, LAMBDA t :
        IF t.earlyStart # Undefined /\ t.lateStart # Undefined
        THEN LET slack == SubNum(t.lateStart, t.earlyStart)
             IN  [t EXCEPT !.slack = slack, !.isCritical = (slack = Num(0))]
        ELSE t)

\* ProjectScheduler.findPathsHelper: the paths it pushes
RECURSIVE findPathsHelper(_, _, _, _, _)
findPathsHelper(ts, current, endTask, currentPath, currentDuration) ==
    IF ts[current].id = ts[endTask].id
    THEN << [tasks |-> currentPath,
             duration |-> currentDuration + ts[current].duration,
             isCritical |-> FALSE] >>
    ELSE LET successors == SuccessorIndices(ts, ts[current].id)
         IN  Flat(LAMBDA j :
                    IF ts[successors[j]].id \in Range(currentPath) THEN <<>>
                    ELSE findPathsHelper(ts, successors[j], endTask,
                                         Append(currentPath, ts[successors[j]].id),
                                         currentDuration + ts[current].duration),
                  1, Len(successors))

\* a search from the first start task only
findAllPathsFromFirstStartTask(ts) ==
    LET startTasks == SubSeq(StartIndices(ts), 1, 1)
        endTasks == findEndTasks(ts)
        found == Flat(LAMBDA a : Flat(LAMBDA b :
                        findPathsHelper(ts, startTasks[a], endTasks[b],
                                        <<ts[startTasks[a]].id>>, 0),
                        1, Len(endTasks)), 1, Len(startTasks))
    IN  MapSeq(found, LAMBDA p :
            [p EXCEPT !.isCritical = (p.duration = getProjectDuration(ts))])

\* ProjectScheduler.findAllPaths: this.paths, the critical ones flagged
findAllPaths(ts) ==
    LET startTasks == StartIndices(ts)
        endTasks == findEndTasks(ts)
        found == Flat(LAMBDA a : Flat(LAMBDA b :
                        findPathsHelper(ts, startTasks[a], endTasks[b],
                                        <<ts[startTasks[a]].id>>, 0),
                        1, Len(endTasks)), 1, Len(startTasks))
    IN  MapSeq(found, LAMBDA p :
            [p EXCEPT !.isCritical = (p.duration = getProjectDuration(ts))])

----------------------------------------------------------------------------
(* ProjectCrashingService.calculateSlackTimes *)

\* a - b where a may be Infinity
MinusInf(a, b) == IF a = Infinity THEN Infinity ELSE a - b

\* the while loop of ProjectCrashingService.topologicalSort on its queue (task
\* ids), inDegree map and sortedResult (task indices)
RECURSIVE KahnLoop(_, _)
RECURSIVE KahnRelax(_, _, _)
KahnRelax(ts, adjacent, st) ==
    IF adjacent = <<>> THEN st
    ELSE LET v == ts[Head(adjacent)].id
             d == (IF st.inDegree[v] = 0 THEN 1 ELSE st.inDegree[v]) - 1
         IN  KahnRelax(ts, Tail(adjacent),
                       [st EXCEPT !.inDegree[v] = d,
                                  !.queue = IF d = 0 THEN Append(@, v) ELSE @])

KahnLoop(ts, st) ==
    IF st.queue = <<>> THEN st.sortedResult
    ELSE LET u == Head(st.queue)
             shifted == [st EXCEPT !.queue = Tail(@),
                                   !.sortedResult = Append(@, IndexOfId(ts, u))]
         IN  KahnLoop(ts, KahnRelax(ts, SuccessorIndices(ts, u), shifted))

\* the tasks in the order of the input list
InputOrder(ts) == [i \in DOMAIN ts |-> i]

\* ProjectCrashingService.topologicalSort: the indices of tasks in result order
CrashingTopologicalSort(ts) ==
    LET known == {ts[i].id : i \in DOMAIN ts}
        inDegree == [id \in known |->
                        Cardinality(PredIds(ts[IndexOfId(ts, id)]) \cap known)]
        queue == Flat(LAMBDA i : IF inDegree[ts[i].id] = 0 THEN <<ts[i].id>> ELSE <<>>,
                      1, Len(ts))
    IN  KahnLoop(ts, [inDegree |-> inDegree, queue |-> queue, sortedResult |-> <<>>])

\* lines 546-555: earlyTimes, a map from the task ids that have an entry
RECURSIVE SlackEarlyLoop(_, _, _)
SlackEarlyLoop(ts, sortedTasks, earlyTimes) ==
    IF sortedTasks = <<>> THEN earlyTimes
    ELSE LET task == ts[Head(sortedTasks)]
             preds == {id \in PredIds(task) : id \in DOMAIN earlyTimes}
             maxPredEF == IF preds = {} THEN 0
                          ELSE LET best == CHOOSE id \in preds : \A o \in preds :
                                       earlyTimes[id].earlyFinish >= earlyTimes[o].earlyFinish
                               IN  IF earlyTimes[best].earlyFinish > 0
                                   THEN earlyTimes[best].earlyFinish ELSE 0
             entry == [earlyStart |-> maxPredEF, earlyFinish |-> maxPredEF + task.duration]
         IN  SlackEarlyLoop(ts, Tail(sortedTasks),
                 IF task.id \in DOMAIN earlyTimes THEN earlyTimes
                 ELSE [id \in DOMAIN earlyTimes \cup {task.id} |->
                          IF id = task.id THEN entry ELSE earlyTimes[id]])

\* lines 565-578: lateTimes, a map from the task ids that have an entry
RECURSIVE SlackLateLoop(_, _, _, _)
SlackLateLoop(ts, reversedTasks, lateTimes, projectDuration) ==
    IF reversedTasks = <<>> THEN lateTimes
    ELSE LET task == ts[Head(reversedTasks)]
             successors == SuccessorIndices(ts, task.id)
             withLate == {ts[k].id : k \in {j \in Range(successors) :
                                               ts[j].id \in DOMAIN lateTimes}}
             minSuccLS ==
                 IF successors = <<>> THEN projectDuration
                 ELSE IF withLate = {} THEN Infinity
                 ELSE lateTimes[CHOOSE id \in withLate : \A o \in withLate :
                          lateTimes[id].lateStart <= lateTimes[o].lateStart].lateStart
             entry == [lateFinish |-> minSuccLS,
                       lateStart |-> MinusInf(minSuccLS, task.duration)]
         IN  SlackLateLoop(ts, Tail(reversedTasks),
                 IF task.id \in DOMAIN lateTimes THEN lateTimes
                 ELSE [id \in DOMAIN lateTimes \cup {task.id} |->
                          IF id = task.id THEN entry ELSE lateTimes[id]],
                 projectDuration)

\* ProjectCrashingService.calculateSlackTimes: the task list it returns
calculateSlackTimes(ts) ==
    LET startNodes == {ts[k].id : k \in Range(StartIndices(ts))}
        sortedTasks == CrashingTopologicalSort(ts)
        earlyTimes == SlackEarlyLoop(ts, sortedTasks,
                          [id \in startNodes |->
                              [earlyStart |-> 0,
                               earlyFinish |-> ts[IndexOfId(ts, id)].duration]])
        projectDurationFromESEF ==
            MaxSeq(0, MapSeq(sortedTasks, LAMBDA k :
                        IF ts[k].id \in DOMAIN earlyTimes
                        THEN earlyTimes[ts[k].id].earlyFinish ELSE 0))
        endNodes == {ts[k].id : k \in Range(EndIndices(ts))}
        lateTimes == SlackLateLoop(ts, Reverse(sortedTasks),
                         [id \in endNodes |->
                             [lateFinish |-> projectDurationFromESEF,
                              lateStart |-> projectDurationFromESEF
                                                - ts[IndexOfId(ts, id)].duration]],
                         projectDurationFromESEF)
    IN  MapSeq(ts, LAMBDA t :
            LET early == IF t.id \in DOMAIN earlyTimes THEN earlyTimes[t.id]
                         ELSE [earlyStart |-> 0, earlyFinish |-> t.duration]
                late == IF t.id \in DOMAIN lateTimes THEN lateTimes[t.id]
                        ELSE [lateStart |-> projectDurationFromESEF - t.duration,
                              lateFinish |-> projectDurationFromESEF]
                slack == MinusInf(late.lateStart, early.earlyStart)
            IN  [t EXCEPT !.earlyStart = Num(early.earlyStart),
                          !.earlyFinish = Num(early.earlyFinish),
                          !.lateStart = Num(late.lateStart),
                          !.lateFinish = Num(late.lateFinish),
                          !.slack = Num(slack),
                          !.isCritical = NearlyEqual(slack, 0)])

----------------------------------------------------------------------------
(* Inputs *)

Ids(n) == 1..n

\* the predecessor lists of n tasks: any set of tasks with a lag of lags
PredecessorChoices(n, lags) ==
    [Ids(n) -> SUBSET (Ids(n) \X lags)]

Predecessors(i, choice) ==
    {[taskId |-> e[1], lag |-> e[2]] : e \in {x \in choice : x[1] # i}}

\* normalTime, crashTime and slope as addCrashTask stores them:
\* maxCrashTime = normalTime - crashTime, slope = MAX_SAFE_INTEGER when
\* maxCrashTime = 0
TimeChoices(maxTime) ==
    {[normalTime |-> nt, crashTime |-> ct, slope |-> sl, normalCost |-> nc] :
        nt \in 1..maxTime, ct \in 1..maxTime, sl \in (0..MaxSlope) \cup {MaxSafeInteger},
        nc \in NormalCosts}

ValidTimeChoices(maxTime) ==
    {c \in TimeChoices(maxTime) :
        /\ c.crashTime <= c.normalTime
        /\ (c.slope = MaxSafeInteger) <=> (c.crashTime = c.normalTime)}

CrashTaskOf(i, preds, c) ==
    [id |-> i, predecessors |-> preds, duration |-> c.normalTime,
     normalTime |-> c.normalTime, normalCost |-> c.normalCost,
     crashTime |-> c.crashTime, maxCrashTime |-> c.normalTime - c.crashTime,
     slope |-> c.slope,
     earlyStart |-> Undefined, earlyFinish |-> Undefined,
     lateStart |-> Undefined, lateFinish |-> Undefined,
     slack |-> Undefined, isCritical |-> FALSE]

\* the tasks of a list that precede task i, directly or not, in a map P
\* from task id to predecessor ids
RECURSIVE Ancestors(_, _, _)
Ancestors(P, S, k) ==
    IF k = 0 THEN S
    ELSE Ancestors(P, S \cup UNION {P[j] : j \in S \cap DOMAIN P}, k - 1)

\* some task is reachable from itself through predecessor edges
HasCycle(P) == \E i \in DOMAIN P : i \in Ancestors(P, P[i], Cardinality(DOMAIN P))

PredMap(ts) == [id \in {ts[i].id : i \in DOMAIN ts} |-> PredIds(ts[IndexOfId(ts, id)])]

TaskOf(i, preds, d) ==
    [id |-> i, predecessors |-> preds, duration |-> d,
     earlyStart |-> Undefined, earlyFinish |-> Undefined,
     lateStart |-> Undefined, lateFinish |-> Undefined,
     slack |-> Undefined, isCritical |-> FALSE]

\* the predecessor lists of tasks i..n over the edges of P, each edge with a
\* lag of lags
RECURSIVE PredAssignments(_, _, _, _)
PredAssignments(P, i, n, lags) ==
    IF i > n THEN {<<>>}
    ELSE {<<{[taskId |-> j, lag |-> f[j]] : j \in P[i]}>> \o rest :
             f \in [P[i] -> lags], rest \in PredAssignments(P, i + 1, n, lags)}

\* every list of n scheduler tasks: any predecessor edges, a task's own id
\* included; the edges of an acyclic list carry any lag of Lags
SchedulerTaskListsOver(n, P) ==
    {[i \in Ids(n) |-> TaskOf(i, A[i], D[i])] :
        A \in PredAssignments(P, 1, n, IF HasCycle(P) THEN {0} ELSE Lags),
        D \in [Ids(n) -> 1..MaxTime]}

SchedulerTaskLists(n) ==
    UNION {SchedulerTaskListsOver(n, P) : P \in [Ids(n) -> SUBSET Ids(n)]}

\* every list of n crash tasks with times up to maxTime; the forms of the
\* application store lag 0 and no task as its own predecessor
CrashTaskLists(n, maxTime) ==
    {[i \in Ids(n) |-> CrashTaskOf(i, Predecessors(i, P[i]), T[i])] :
        P \in {Q \in PredecessorChoices(n, {0}) :
                  \A i \in Ids(n) : \A x \in Q[i] : x[1] # i},
        T \in [Ids(n) -> ValidTimeChoices(maxTime)]}

\* the crash task lists of n tasks of the model: short tasks, and long ones
\* in a list of up to FewTasks
CrashInputs(n) ==
    IF n <= FewTasks
    THEN CrashTaskLists(n, MaxTime) \cup CrashTaskLists(n, LongTime)
    ELSE CrashTaskLists(n, MaxTime)

----------------------------------------------------------------------------
(* ProjectCrashingService.crashProject *)

CrashIdle ==
    /\ indirectCostInput = 0
    /\ reductionPerUnitInput = 0
    /\ currentTasks = <<>>
    /\ crashedTasksHistory = <<>>
    /\ historicalPaths = <<>>
    /\ costAnalysis = <<>>
    /\ iteration = 0
    /\ previousCommittedMaxDuration = 0
    /\ initialMaxDuration = 0

SchedulerIdle ==
    /\ thisTasks = <<>>
    /\ thisPaths = <<>>
    /\ thisCriticalPaths = <<>>

\* the error state null
Null == "null"

\* the state of a ProjectCrashingProvider that has just been mounted
InitialContext ==
    [crashTasks |-> <<>>, indirectCost |-> 0, reductionPerUnit |-> 0,
     crashPaths |-> <<>>, criticalCrashPaths |-> <<>>, costAnalysis |-> <<>>,
     crashedTasksHistory |-> <<>>, isCrashed |-> FALSE, currentIteration |-> 0,
     totalIterations |-> 0, projectDuration |-> 0, error |-> Null]

CtxIdle ==
    /\ ctx = InitialContext
    /\ op = "none"
    /\ edits = 0

\* the state of useProjectData when the hook is mounted (the project name and
\* the selected task id take no part in any operation on the tasks), and the
\* task lists of the projects in localStorage
InitialProject ==
    [tasks |-> <<>>, paths |-> <<>>, criticalPaths |-> <<>>, projectDuration |-> 0,
     isCalculated |-> FALSE, error |-> Null, saved |-> {}]

\* the state of a CrashingIterationSlider that has just been mounted: not
\* playing, no interval timer running
InitialSlider == [isAutoPlaying |-> FALSE, timers |-> {}]

\* the slider is rendered only while isCrashed is true: when it is unmounted
\* its isAutoPlaying state is lost, and its intervals, which nothing clears,
\* keep running with a setIsAutoPlaying that no longer has any effect
Unmounted(s) ==
    [isAutoPlaying |-> FALSE,
     timers |-> {[t EXCEPT !.attached = FALSE] : t \in s.timers}]

HooksIdle ==
    /\ project = InitialProject
    /\ slider = InitialSlider

NoAttempt == [branch |-> "none", critical |-> <<>>, crashable |-> <<>>,
              selected |-> <<>>, committed |-> FALSE]

\* what the caller's task objects hold after the operation wrote newWork to
\* the objects it works on
CallerView(newWork) == IF shared THEN newWork ELSE tasks

\* JSON.parse(JSON.stringify(tasks)) yields objects of its own
CrashProjectSharesInput == FALSE

InitCrash ==
    /\ pc = "crash.start"
    /\ \E n \in 1..NumTasks : tasks \in CrashInputs(n)
    /\ shared = FALSE
    /\ indirectCostInput \in IndirectCosts
    /\ reductionPerUnitInput \in 0..MaxReduction
    /\ currentTasks = <<>>
    /\ crashedTasksHistory = <<>>
    /\ historicalPaths = <<>>
    /\ costAnalysis = <<>>
    /\ iteration = 0
    /\ previousCommittedMaxDuration = 0
    /\ initialMaxDuration = 0
    /\ attempt = NoAttempt
    /\ SchedulerIdle
    /\ slackResult = <<>>
    /\ CtxIdle
    /\ HooksIdle

\* lines 107-141: the initial state, iteration 0
CrashStart ==
    /\ pc = "crash.start"
    /\ LET initialTasksState == InitialTasksState(tasks)
           paths == calculateAllPaths(initialTasksState)
           critical == SelectSeq(paths, LAMBDA p : p.isCritical)
           initialMax == IF Len(critical) > 0 THEN critical[1].durations[1]
                         ELSE IF Len(paths) > 0 THEN MaxPathDuration(paths) ELSE 0
           initialDirectCost == SumSeq(MapSeq(initialTasksState, LAMBDA t : t.normalCost))
       IN  /\ historicalPaths' = paths
           /\ initialMaxDuration' = initialMax
           /\ costAnalysis' = << [projectDuration |-> initialMax,
                                  crashedActivities |-> <<>>,
                                  crashCost |-> 0,
                                  directCost |-> initialDirectCost,
                                  indirectCost |-> indirectCostInput,
                                  totalCost |-> initialDirectCost + indirectCostInput,
                                  isOptimum |-> FALSE,
                                  isCrashPoint |-> FALSE] >>
           /\ crashedTasksHistory' = <<initialTasksState>>
           /\ currentTasks' = initialTasksState
           /\ previousCommittedMaxDuration' = initialMax
           /\ shared' = CrashProjectSharesInput
           /\ tasks' = IF CrashProjectSharesInput THEN initialTasksState ELSE tasks
    /\ iteration' = 0
    /\ attempt' = NoAttempt
    /\ pc' = "crash.loop"
    /\ UNCHANGED <<indirectCostInput, reductionPerUnitInput, schedVars, slackResult, ctxVars, hookVars>>

\* lines 143-505: one pass of while (canContinueCrashing)
CrashIterate ==
    /\ pc = "crash.loop"
    /\ LET stop(att) == /\ costAnalysis' = MarkCrashPoint(costAnalysis)
                        /\ attempt' = att
                        /\ pc' = "crash.post"
                        /\ UNCHANGED <<currentTasks, crashedTasksHistory, historicalPaths,
                                       iteration, previousCommittedMaxDuration, tasks>>
       IN
       \E critical \in {CurrentCriticalPaths(historicalPaths, iteration,
                                             previousCommittedMaxDuration)} :
       \E crashable \in {CrashableTasksOnCurrentCriticalPaths(currentTasks,
                                                              historicalPaths, critical)} :
           IF crashable = <<>>
           THEN stop([NoAttempt EXCEPT !.critical = critical])
           ELSE
           \E selection \in {SelectTasksToCompress(currentTasks, historicalPaths, critical,
                                                   previousCommittedMaxDuration, crashable)} :
           \E selected \in {selection.tasks} :
           \E att \in {[branch |-> selection.branch, critical |-> critical,
                        crashable |-> crashable, selected |-> selected,
                        committed |-> FALSE]} :
           \E hypothetical \in {HypotheticalNextTasksState(currentTasks, selected)} :
           \E hypotheticalNewMaxDuration \in
                   {MaxPathDuration(calculateAllPaths(hypothetical))} :
           \E crashCost \in {ActualCrashCost(currentTasks, selected)} :
           \E newDirectCost \in {costAnalysis[Len(costAnalysis)].directCost + crashCost} :
           \E daysReducedTotal \in {initialMaxDuration - hypotheticalNewMaxDuration} :
           \E newIndirectCostValue \in
                   {NewIndirectCostValue(indirectCostInput, daysReducedTotal,
                                         reductionPerUnitInput)} :
               IF selected = <<>> \/ ActuallyModified(currentTasks, selected) = <<>>
               THEN stop(att)
               ELSE IF CommitCheck(hypotheticalNewMaxDuration, previousCommittedMaxDuration)
               THEN /\ iteration' = iteration + 1
                    /\ currentTasks' = hypothetical
                    /\ tasks' = CallerView(hypothetical)
                    /\ historicalPaths' = CommitPaths(historicalPaths, hypothetical,
                                                      iteration + 1,
                                                      hypotheticalNewMaxDuration)
                    /\ costAnalysis' = Append(costAnalysis,
                           [projectDuration |-> hypotheticalNewMaxDuration,
                            crashedActivities |-> selected,
                            crashCost |-> crashCost,
                            directCost |-> newDirectCost,
                            indirectCost |-> newIndirectCostValue,
                            totalCost |-> newDirectCost + newIndirectCostValue,
                            isOptimum |-> FALSE,
                            isCrashPoint |-> FALSE])
                    /\ crashedTasksHistory' = Append(crashedTasksHistory, hypothetical)
                    /\ previousCommittedMaxDuration' = hypotheticalNewMaxDuration
                    /\ attempt' = [att EXCEPT !.committed = TRUE]
                    /\ pc' = "crash.loop"
               ELSE stop(att)
    /\ UNCHANGED <<shared, indirectCostInput, reductionPerUnitInput, initialMaxDuration,
                   schedVars, slackResult, ctxVars, hookVars>>

\* lines 506-528: mark the optimum and return
CrashReturn ==
    /\ pc = "crash.post"
    /\ costAnalysis' = IF Len(costAnalysis) > 0
                       THEN [costAnalysis EXCEPT ![MinCostIndex(costAnalysis)].isOptimum = TRUE]
                       ELSE costAnalysis
    /\ pc' = "crash.done"
    /\ UNCHANGED <<tasks, shared, indirectCostInput, reductionPerUnitInput, currentTasks,
                   crashedTasksHistory, historicalPaths, iteration,
                   previousCommittedMaxDuration, initialMaxDuration, attempt,
                   schedVars, slackResult, ctxVars, hookVars>>

NextCrash == CrashStart \/ CrashIterate \/ CrashReturn

----------------------------------------------------------------------------
(* ProjectScheduler: new ProjectScheduler(tasks).calculateSchedule() *)

\* a constructor that keeps the caller's array: this.tasks = tasks
SchedulerKeepsInput == TRUE

\* JSON.parse(JSON.stringify(tasks)) yields objects of its own
SchedulerSharesInput == FALSE

InitScheduler ==
    /\ pc = "sched.new"
    /\ \E n \in 0..NumTasks :
           \E P \in [Ids(n) -> SUBSET Ids(n)] : tasks \in SchedulerTaskListsOver(n, P)
    /\ shared = FALSE
    /\ CrashIdle
    /\ attempt = NoAttempt
    /\ SchedulerIdle
    /\ slackResult = <<>>
    /\ CtxIdle
    /\ HooksIdle

\* the constructor
SchedulerNew ==
    /\ pc = "sched.new"
    /\ thisTasks' = tasks
    /\ shared' = SchedulerSharesInput
    /\ pc' = "sched.validate"
    /\ UNCHANGED <<tasks, crashVars, thisPaths, thisCriticalPaths, slackResult, ctxVars, hookVars>>

\* calculateSchedule, lines 18-21: return on an empty list, throw on a cycle
ScheduleValidate ==
    /\ pc = "sched.validate"
    /\ pc' = IF Len(thisTasks) = 0 THEN "sched.done"
             ELSE IF validateNoCyclicDependencies(thisTasks) THEN "sched.thrown"
             ELSE "sched.early"
    /\ UNCHANGED <<tasks, shared, crashVars, schedVars, slackResult, ctxVars, hookVars>>

\* calculateSchedule, line 24
ScheduleEarlyDates ==
    /\ pc = "sched.early"
    /\ thisTasks' = calculateEarlyDates(thisTasks)
    /\ tasks' = CallerView(thisTasks')
    /\ pc' = "sched.late"
    /\ UNCHANGED <<shared, crashVars, thisPaths, thisCriticalPaths, slackResult, ctxVars, hookVars>>

\* calculateSchedule, line 27
ScheduleLateDates ==
    /\ pc = "sched.late"
    /\ thisTasks' = calculateLateDates(thisTasks)
    /\ tasks' = CallerView(thisTasks')
    /\ pc' = "sched.slack"
    /\ UNCHANGED <<shared, crashVars, thisPaths, thisCriticalPaths, slackResult, ctxVars, hookVars>>

\* calculateSchedule, line 30
ScheduleSlack ==
    /\ pc = "sched.slack"
    /\ thisTasks' = calculateSlackAndMarkCriticalPath(thisTasks)
    /\ tasks' = CallerView(thisTasks')
    /\ pc' = "sched.paths"
    /\ UNCHANGED <<shared, crashVars, thisPaths, thisCriticalPaths, slackResult, ctxVars, hookVars>>

\* calculateSchedule, line 33
SchedulePaths ==
    /\ pc = "sched.paths"
    /\ thisPaths' = findAllPaths(thisTasks)
    /\ thisCriticalPaths' = SelectSeq(thisPaths', LAMBDA p : p.isCritical)
    /\ pc' = "sched.done"
    /\ UNCHANGED <<tasks, shared, crashVars, thisTasks, slackResult, ctxVars, hookVars>>

NextScheduler ==
    \/ SchedulerNew
    \/ ScheduleValidate
    \/ ScheduleEarlyDates
    \/ ScheduleLateDates
    \/ ScheduleSlack
    \/ SchedulePaths

SchedulerSpec == InitScheduler /\ [][NextScheduler]_vars

\* the lists of n scheduler tasks in which some predecessor names the id
\* n + 1, which no task has
StaleSchedulerTaskLists(n) ==
    {ts \in {[i \in Ids(n) |-> TaskOf(i, {[taskId |-> j, lag |-> 0] : j \in P[i]}, D[i])] :
                P \in [Ids(n) -> SUBSET Ids(n + 1)], D \in [Ids(n) -> 1..MaxTime]} :
        \E i \in Ids(n) : (n + 1) \in PredIds(ts[i])}

InitSchedulerStale ==
    /\ pc = "sched.new"
    /\ \E n \in 1..FewTasks : tasks \in StaleSchedulerTaskLists(n)
    /\ shared = FALSE
    /\ CrashIdle
    /\ attempt = NoAttempt
    /\ SchedulerIdle
    /\ slackResult = <<>>
    /\ CtxIdle
    /\ HooksIdle

\* the scheduler on task lists that hold a stale reference
StaleSchedulerSpec == InitSchedulerStale /\ [][NextScheduler]_vars

----------------------------------------------------------------------------
(* ProjectCrashingService.calculateSlackTimes(tasks) *)

\* the result is built from spreads of the tasks: objects of its own
SlackTimesSharesInput == FALSE

\* every list of n tasks of a history snapshot, cost fields aside
SnapshotTaskLists(n) ==
    {[i \in Ids(n) |-> CrashTaskOf(i, Predecessors(i, P[i]), T[i])] :
        P \in PredecessorChoices(n, {0}),
        T \in [Ids(n) -> {c \in ValidTimeChoices(MaxTime) : c.slope \in {1, MaxSafeInteger}}]}

InitSlackTimes ==
    /\ pc = "slack.start"
    /\ \E n \in 1..NumTasks : tasks \in SnapshotTaskLists(n)
    /\ shared = FALSE
    /\ CrashIdle
    /\ attempt = NoAttempt
    /\ SchedulerIdle
    /\ slackResult = <<>>
    /\ CtxIdle
    /\ HooksIdle

SlackTimes ==
    /\ pc = "slack.start"
    /\ slackResult' = calculateSlackTimes(tasks)
    /\ shared' = SlackTimesSharesInput
    /\ tasks' = IF SlackTimesSharesInput THEN slackResult' ELSE tasks
    /\ pc' = "slack.done"
    /\ UNCHANGED <<crashVars, schedVars, ctxVars, hookVars>>

\* every list of n scheduler tasks over the edges of P with lag 0 on every
\* edge and durations from 0 on, as the task dialog accepts them
LagFreeSchedulerTaskLists(n, P) ==
    {[i \in Ids(n) |-> TaskOf(i, {[taskId |-> j, lag |-> 0] : j \in P[i]}, D[i])] :
        D \in [Ids(n) -> 0..MaxTime]}

InitSchedulerLagFree ==
    /\ pc = "sched.new"
    /\ \E n \in 0..NumTasks :
           \E P \in [Ids(n) -> SUBSET Ids(n)] : tasks \in LagFreeSchedulerTaskLists(n, P)
    /\ shared = FALSE
    /\ CrashIdle
    /\ attempt = NoAttempt
    /\ SchedulerIdle
    /\ slackResult = <<>>
    /\ CtxIdle
    /\ HooksIdle

\* the scheduler on task lists without lags
LagFreeSchedulerSpec == InitSchedulerLagFree /\ [][NextScheduler]_vars

\* calculateSlackTimes(tasks) on the task list a ProjectScheduler has scheduled
SlackTimesOfScheduled ==
    /\ pc = "sched.done"
    /\ slackResult' = calculateSlackTimes(tasks)
    /\ pc' = "slack.done"
    /\ UNCHANGED <<tasks, shared, crashVars, schedVars, ctxVars, hookVars>>

\* calculateSchedule and then calculateSlackTimes on the same task list
SlackOfScheduledSpec ==
    InitScheduler /\ [][NextScheduler \/ SlackTimesOfScheduled]_vars

----------------------------------------------------------------------------
(* ProjectCrashingProvider: the operations of the crashing context *)

CtxMaxTasks == 3     \* at most this many tasks in crashTasks
MaxEdits == 4        \* at most this many edits of the context's inputs

\* the times and costs of the task objects handed to addCrashTask
TaskFormInputs ==
    {[normalTime |-> 3, crashTime |-> 1, normalCost |-> 5, crashCost |-> 9],
     [normalTime |-> 1, crashTime |-> 1, normalCost |-> 5, crashCost |-> 5]}

\* the values handed to setIndirectCost and setReductionPerUnit
IndirectCostInputs == {-1, 4}
ReductionInputs == {-1, 1}

\* the least id no task of crashTasks has: ids are unique
FreshId(crashTasks) ==
    CHOOSE i \in Ids(CtxMaxTasks) :
        /\ \A k \in DOMAIN crashTasks : crashTasks[k].id # i
        /\ \A j \in 1..(i - 1) : \E k \in DOMAIN crashTasks : crashTasks[k].id = j

\* addCrashTask: the task appended, maxCrashTime and slope computed from it
addCrashTask(crashTasks, id, predIds, form) ==
    LET maxCrashTime == form.normalTime - form.crashTime
        slope == IF maxCrashTime > 0
                 THEN (form.crashCost - form.normalCost) \div maxCrashTime
                 ELSE MaxSafeInteger
    IN  Append(crashTasks,
               [id |-> id,
                predecessors |-> {[taskId |-> j, lag |-> 0] : j \in predIds},
                duration |-> form.normalTime,
                normalTime |-> form.normalTime, normalCost |-> form.normalCost,
                crashTime |-> form.crashTime, crashCost |-> form.crashCost,
                maxCrashTime |-> maxCrashTime, slope |-> slope,
                earlyStart |-> Undefined, earlyFinish |-> Undefined,
                lateStart |-> Undefined, lateFinish |-> Undefined,
                slack |-> Undefined, isCritical |-> FALSE])

\* the operation left the service untouched
ServiceUntouched == UNCHANGED <<pc, tasks, shared, crashVars, schedVars, slackResult>>

InitContext ==
    /\ pc = "ctx.idle"
    /\ tasks = <<>>
    /\ shared = FALSE
    /\ CrashIdle
    /\ attempt = NoAttempt
    /\ SchedulerIdle
    /\ slackResult = <<>>
    /\ CtxIdle
    /\ HooksIdle

AddCrashTask ==
    /\ pc = "ctx.idle"
    /\ edits < MaxEdits
    /\ Len(ctx.crashTasks) < CtxMaxTasks
    /\ \E form \in TaskFormInputs :
       \E predIds \in SUBSET (Ids(CtxMaxTasks) \ {FreshId(ctx.crashTasks)}) :
           ctx' = [ctx EXCEPT !.crashTasks =
                       addCrashTask(@, FreshId(ctx.crashTasks), predIds, form)]
    /\ op' = "addCrashTask"
    /\ edits' = edits + 1
    /\ ServiceUntouched
    /\ UNCHANGED hookVars

\* deleteCrashTask(taskId)
DeleteCrashTask ==
    /\ pc = "ctx.idle"
    /\ edits < MaxEdits
    /\ \E taskId \in Ids(CtxMaxTasks) :
          /\ IndexOfId(ctx.crashTasks, taskId) # 0
          /\ ctx' = [ctx EXCEPT !.crashTasks = SelectSeq(@, LAMBDA t : t.id # taskId)]
    /\ op' = "deleteCrashTask"
    /\ edits' = edits + 1
    /\ ServiceUntouched
    /\ UNCHANGED hookVars

SetIndirectCost ==
    /\ pc = "ctx.idle"
    /\ edits < MaxEdits
    /\ \E v \in IndirectCostInputs : ctx' = [ctx EXCEPT !.indirectCost = v]
    /\ op' = "setIndirectCost"
    /\ edits' = edits + 1
    /\ ServiceUntouched
    /\ UNCHANGED hookVars

SetReductionPerUnit ==
    /\ pc = "ctx.idle"
    /\ edits < MaxEdits
    /\ \E v \in ReductionInputs : ctx' = [ctx EXCEPT !.reductionPerUnit = v]
    /\ op' = "setReductionPerUnit"
    /\ edits' = edits + 1
    /\ ServiceUntouched
    /\ UNCHANGED hookVars

\* clearCrashingData: everything but the two costs is reset
ClearCrashingData ==
    /\ pc = "ctx.idle"
    /\ edits < MaxEdits
    /\ ctx' = [InitialContext EXCEPT !.indirectCost = ctx.indirectCost,
                                     !.reductionPerUnit = ctx.reductionPerUnit]
    /\ op' = "clearCrashingData"
    /\ edits' = edits + 1
    /\ ServiceUntouched
    /\ slider' = Unmounted(slider)
    /\ UNCHANGED project

\* a validation without the check of the two costs
ValidationErrorCostsUnchecked(c) ==
    IF Len(c.crashTasks) = 0 THEN "No tasks to crash"
    ELSE IF StartIndices(c.crashTasks) = <<>> THEN "No start tasks found"
    ELSE IF EndIndices(c.crashTasks) = <<>> THEN "No end tasks found"
    ELSE Null

\* lines 196-216: the message of the error thrown before the service call,
\* Null when none is thrown
ValidationError(c) ==
    IF Len(c.crashTasks) = 0 THEN "No tasks to crash"
    ELSE IF c.indirectCost < 0 \/ c.reductionPerUnit < 0
    THEN "Indirect cost and reduction per unit must be non-negative"
    ELSE IF StartIndices(c.crashTasks) = <<>> THEN "No start tasks found"
    ELSE IF EndIndices(c.crashTasks) = <<>> THEN "No end tasks found"
    ELSE Null

\* performCrashing up to the service call: either the validation throws and
\* the catch block stores the message, or crashProject is called
PerformCrashing ==
    /\ pc = "ctx.idle"
    /\ op' = "performCrashing"
    /\ IF ValidationError(ctx) # Null
       THEN /\ ctx' = [ctx EXCEPT !.error = ValidationError(ctx)]
            /\ ServiceUntouched
       ELSE /\ ctx' = [ctx EXCEPT !.error = Null]
            /\ pc' = "crash.start"
            /\ tasks' = ctx.crashTasks
            /\ indirectCostInput' = ctx.indirectCost
            /\ reductionPerUnitInput' = ctx.reductionPerUnit
            /\ UNCHANGED <<shared, currentTasks, crashedTasksHistory, historicalPaths,
                           costAnalysis, iteration, previousCommittedMaxDuration,
                           initialMaxDuration, attempt, schedVars, slackResult>>
    /\ UNCHANGED <<edits, hookVars>>

\* performCrashing from the return of crashProject on: the slack times of
\* every snapshot, then the state updates of lines 258-271
PerformCrashingReturn ==
    /\ pc = "crash.done"
    /\ op = "performCrashing"
    /\ ctx' = [ctx EXCEPT
                  !.crashPaths = historicalPaths,
                  !.criticalCrashPaths =
                      MapSeq(CurrentCriticalPaths(historicalPaths, iteration,
                                                  previousCommittedMaxDuration),
                             LAMBDA k : historicalPaths[k]),
                  !.costAnalysis = costAnalysis,
                  !.crashedTasksHistory = MapSeq(crashedTasksHistory, calculateSlackTimes),
                  !.totalIterations = Len(crashedTasksHistory) - 1,
                  !.isCrashed = TRUE,
                  !.projectDuration = costAnalysis[1].projectDuration,
                  !.currentIteration = 0]
    /\ pc' = "ctx.idle"
    /\ tasks' = <<>>
    /\ shared' = FALSE
    /\ indirectCostInput' = 0
    /\ reductionPerUnitInput' = 0
    /\ currentTasks' = <<>>
    /\ crashedTasksHistory' = <<>>
    /\ historicalPaths' = <<>>
    /\ costAnalysis' = <<>>
    /\ iteration' = 0
    /\ previousCommittedMaxDuration' = 0
    /\ initialMaxDuration' = 0
    /\ attempt' = NoAttempt
    /\ UNCHANGED <<schedVars, slackResult, op, edits, hookVars>>

NextContext ==
    \/ AddCrashTask
    \/ DeleteCrashTask
    \/ SetIndirectCost
    \/ SetReductionPerUnit
    \/ ClearCrashingData
    \/ PerformCrashing
    \/ NextCrash
    \/ PerformCrashingReturn

\* the crashing context driven by any bounded sequence of its operations
ContextSpec == InitContext /\ [][NextContext]_vars

----------------------------------------------------------------------------
(* CrashingIterationSlider: the handlers of the slider and its intervals *)

MaxTimers == 1       \* at most this many intervals running at once
SliderMaxEdits == 3  \* at most this many edits of crashTasks on the page

\* the slider is on the screen, and no handler of the page is running
SliderShown ==
    /\ pc = "ctx.idle"
    /\ ctx.isCrashed
    /\ ctx.totalIterations # 0

\* setCurrentIteration(iteration) of the render that saw costAnalysisOfRender
setCurrentIteration(c, costAnalysisOfRender, iter) ==
    [c EXCEPT !.currentIteration = iter,
              !.projectDuration = IF Len(costAnalysisOfRender) > iter
                                  THEN costAnalysisOfRender[iter + 1].projectDuration
                                  ELSE @]

\* a handler of the slider leaves everything but the context and the slider
\* as it is
OnlySliderChanges ==
    UNCHANGED <<pc, tasks, shared, crashVars, schedVars, slackResult, op, edits, project>>

\* the Slider control: a value from min 0 to max totalIterations
HandleSliderChange ==
    /\ SliderShown
    /\ \E newValue \in 0..ctx.totalIterations :
           ctx' = setCurrentIteration(ctx, ctx.costAnalysis, newValue)
    /\ UNCHANGED slider
    /\ OnlySliderChanges

HandlePrevious ==
    /\ SliderShown
    /\ ctx.currentIteration > 0
    /\ ctx' = setCurrentIteration(ctx, ctx.costAnalysis, ctx.currentIteration - 1)
    /\ UNCHANGED slider
    /\ OnlySliderChanges

HandleNext ==
    /\ SliderShown
    /\ ctx.currentIteration < ctx.totalIterations
    /\ ctx' = setCurrentIteration(ctx, ctx.costAnalysis, ctx.currentIteration + 1)
    /\ UNCHANGED slider
    /\ OnlySliderChanges

\* handleReset: the iteration is set to 0 and isAutoPlaying to false; the
\* intervals are left running
HandleReset ==
    /\ SliderShown
    /\ ctx' = setCurrentIteration(ctx, ctx.costAnalysis, 0)
    /\ slider' = [slider EXCEPT !.isAutoPlaying = FALSE]
    /\ OnlySliderChanges

\* handleAutoPlay while playing: isAutoPlaying is set to false; the intervals
\* are left running
HandleAutoPlayPause ==
    /\ SliderShown
    /\ slider.isAutoPlaying
    /\ slider' = [slider EXCEPT !.isAutoPlaying = FALSE]
    /\ UNCHANGED ctx
    /\ OnlySliderChanges

\* handleAutoPlay while not playing: an interval is started whose callback
\* holds current, totalIterations and setCurrentIteration of this render
HandleAutoPlayStart ==
    /\ SliderShown
    /\ ~slider.isAutoPlaying
    /\ Cardinality(slider.timers) < MaxTimers
    /\ slider' = [isAutoPlaying |-> TRUE,
                  timers |-> slider.timers \cup
                      {[current |-> ctx.currentIteration,
                        totalIterations |-> ctx.totalIterations,
                        costAnalysis |-> ctx.costAnalysis,
                        attached |-> TRUE]}]
    /\ UNCHANGED ctx
    /\ OnlySliderChanges

\* the callback of an interval, run between two handlers of the page
TimerTick ==
    /\ pc = "ctx.idle"
    /\ \E t \in slider.timers :
          IF t.current < t.totalIterations
          THEN /\ ctx' = setCurrentIteration(ctx, t.costAnalysis, t.current + 1)
               /\ slider' = [slider EXCEPT !.timers =
                                (@ \ {t}) \cup {[t EXCEPT !.current = t.current + 1]}]
          ELSE /\ slider' = [isAutoPlaying |-> IF t.attached THEN FALSE
                                               ELSE slider.isAutoPlaying,
                             timers |-> slider.timers \ {t}]
               /\ UNCHANGED ctx
    /\ OnlySliderChanges

NextSlider ==
    \/ HandleSliderChange
    \/ HandlePrevious
    \/ HandleNext
    \/ HandleReset
    \/ HandleAutoPlayPause
    \/ HandleAutoPlayStart
    \/ TimerTick

\* the task form and the task table of the page, and its clear button
PageAddCrashTask == edits < SliderMaxEdits /\ AddCrashTask
PageDeleteCrashTask == edits < SliderMaxEdits /\ DeleteCrashTask
PageClearCrashingData == edits < SliderMaxEdits /\ ClearCrashingData

NextPage ==
    \/ PageAddCrashTask
    \/ PageDeleteCrashTask
    \/ PageClearCrashingData
    \/ PerformCrashing
    \/ NextCrash
    \/ PerformCrashingReturn
    \/ NextSlider

\* the crashing page: edits of crashTasks, performCrashing, clearCrashingData,
\* the handlers of the slider and the callbacks of its intervals, in any order
SliderSpec == InitContext /\ [][NextPage]_vars

----------------------------------------------------------------------------
(* useProjectData: the operations of the project hook *)

ProjMaxTasks == 3    \* at most this many tasks in the project
ProjMaxId == 4       \* task ids range over 1..ProjMaxId
ProjMaxOps == 4      \* at most this many operations on the hook
ProjMaxSaved == 1    \* at most this many saved projects

\* the durations the task forms hand over
ProjDurations == {1, 2}

TaskIds(ts) == {ts[i].id : i \in DOMAIN ts}

\* predecessorIds.map(id => ({taskId: id, type: FS, lag: 0}))
FromPredecessorIds(predIds) == {[taskId |-> j, lag |-> 0] : j \in predIds}

\* addTask: [...prev, newTask]
addTask(ts, id, d, predIds) == Append(ts, TaskOf(id, FromPredecessorIds(predIds), d))

\* updateTask: prev.map(task => task.id === updatedTask.id ? updatedTask : task)
updateTask(ts, updatedTask) ==
    MapSeq(ts, LAMBDA t : IF t.id = updatedTask.id THEN updatedTask ELSE t)

\* updateTasks: a Map from id to task, built from prev (ids are unique), in
\* which every updated task replaces the entry of its id or is added last
RECURSIVE updateTasks(_, _)
updateTasks(ts, updatedTasks) ==
    IF updatedTasks = <<>> THEN ts
    ELSE LET u == Head(updatedTasks)
         IN  updateTasks(IF u.id \in TaskIds(ts) THEN updateTask(ts, u) ELSE Append(ts, u),
                         Tail(updatedTasks))

\* idMap of renumberTasks and insertTaskBefore: every task id from start on,
\* moved up by increment
IdMap(ts, start, increment) ==
    [id \in {i \in TaskIds(ts) : i >= start} |-> id + increment]

\* the tasks with an entry in idMap get their new id and their predecessor
\* references mapped; every other task is kept as it is
ApplyIdMap(ts, idMap) ==
    MapSeq(ts, LAMBDA t :
        IF t.id \in DOMAIN idMap
        THEN [t EXCEPT !.id = idMap[t.id],
                       !.predecessors =
                           {[p EXCEPT !.taskId = IF p.taskId \in DOMAIN idMap
                                                 THEN idMap[p.taskId] ELSE p.taskId] :
                               p \in t.predecessors}]
        ELSE t)

\* renumberTasks(startIndex, increment)
renumberTasks(ts, startIndex, increment) ==
    ApplyIdMap(ts, IdMap(ts, startIndex, increment))

\* insertTaskBefore(targetTaskId, newTask)
insertTaskBefore(ts, targetTaskId, newTaskId, d, predIds, autoRenumber) ==
    IF IndexOfId(ts, targetTaskId) = 0 THEN ts
    ELSE LET targetTask == ts[IndexOfId(ts, targetTaskId)]
             tasksToUpdate == IF autoRenumber
                              THEN ApplyIdMap(ts, IdMap(ts, targetTaskId, 1))
                              ELSE ts
             insertedId == IF autoRenumber THEN targetTaskId ELSE newTaskId
             updatedTargetId == IF autoRenumber THEN targetTaskId + 1 ELSE targetTaskId
             k == IndexOfId(tasksToUpdate, updatedTargetId)
         IN  IF k = 0
             THEN Append(tasksToUpdate, TaskOf(insertedId, FromPredecessorIds(predIds), d))
             ELSE Append(
                    MapSeq(tasksToUpdate, LAMBDA t :
                        IF t.id = updatedTargetId
                        THEN [tasksToUpdate[k] EXCEPT
                                 !.predecessors = {[taskId |-> insertedId, lag |-> 0]}]
                        ELSE t),
                    TaskOf(insertedId, targetTask.predecessors, d))

\* deleteTask: the task is filtered out, then the references to it
deleteTask(ts, taskId) ==
    MapSeq(SelectSeq(ts, LAMBDA t : t.id # taskId), LAMBDA t :
        [t EXCEPT !.predecessors = {p \in t.predecessors : p.taskId # taskId}])

\* reorderTasks: splice(oldIndex, 1) and splice(newIndex, 0, removed), on
\* positions counted from 1
reorderTasks(ts, oldIndex, newIndex) ==
    LET rest == SubSeq(ts, 1, oldIndex - 1) \o SubSeq(ts, oldIndex + 1, Len(ts))
    IN  SubSeq(rest, 1, newIndex - 1) \o <<ts[oldIndex]>> \o SubSeq(rest, newIndex, Len(rest))

\* updateTaskWithNewId(originalId, updatedTask)
updateTaskWithNewId(ts, originalId, updatedTask) ==
    Append(MapSeq(SelectSeq(ts, LAMBDA t : t.id # originalId), LAMBDA t :
               [t EXCEPT !.predecessors =
                   {[p EXCEPT !.taskId = IF p.taskId = originalId THEN updatedTask.id
                                         ELSE p.taskId] : p \in t.predecessors}]),
           updatedTask)

\* the task object the edit dialog builds from the selected task
EditedTask(selectedTask, id, d, predIds) ==
    [selectedTask EXCEPT !.id = id, !.duration = d,
                         !.predecessors = FromPredecessorIds(predIds)]

\* what scheduler.getCalculatedTasks() holds after a calculateSchedule that
\* did not throw
CalculatedTasks(ts) ==
    calculateSlackAndMarkCriticalPath(calculateLateDates(calculateEarlyDates(ts)))

\* a calculateSchedule that reports success whatever the scheduler did
calculateScheduleAlwaysCalculated(p) ==
    IF Len(p.tasks) = 0 THEN [p EXCEPT !.error = "No tasks to calculate"]
    ELSE IF validateNoCyclicDependencies(p.tasks)
    THEN [p EXCEPT !.error = "Cyclic dependency detected in project graph",
                   !.isCalculated = TRUE]
    ELSE [p EXCEPT !.tasks = CalculatedTasks(p.tasks),
                   !.paths = findAllPaths(CalculatedTasks(p.tasks)),
                   !.criticalPaths = SelectSeq(findAllPaths(CalculatedTasks(p.tasks)),
                                               LAMBDA q : q.isCritical),
                   !.projectDuration = getProjectDuration(CalculatedTasks(p.tasks)),
                   !.isCalculated = TRUE,
                   !.error = Null]

\* calculateSchedule of the hook: the state after the call
calculateSchedule(p) ==
    IF Len(p.tasks) = 0 THEN [p EXCEPT !.error = "No tasks to calculate"]
    ELSE IF validateNoCyclicDependencies(p.tasks)
    THEN [p EXCEPT !.error = "Cyclic dependency detected in project graph",
                   !.isCalculated = FALSE]
    ELSE [p EXCEPT !.tasks = CalculatedTasks(p.tasks),
                   !.paths = findAllPaths(CalculatedTasks(p.tasks)),
                   !.criticalPaths = SelectSeq(findAllPaths(CalculatedTasks(p.tasks)),
                                               LAMBDA q : q.isCritical),
                   !.projectDuration = getProjectDuration(CalculatedTasks(p.tasks)),
                   !.isCalculated = TRUE,
                   !.error = Null]

\* every operation of the hook leaves the engines, the crashing context and
\* the slider untouched
OnlyProjectChanges ==
    UNCHANGED <<pc, tasks, shared, crashVars, schedVars, slackResult, ctx, slider>>

\* setTasks(newTasks) and setIsCalculated(false)
TasksChanged(newTasks, name) ==
    /\ project' = [project EXCEPT !.tasks = newTasks, !.isCalculated = FALSE]
    /\ op' = name
    /\ edits' = edits + 1
    /\ OnlyProjectChanges

InitProject ==
    /\ pc = "proj.idle"
    /\ tasks = <<>>
    /\ shared = FALSE
    /\ CrashIdle
    /\ attempt = NoAttempt
    /\ SchedulerIdle
    /\ slackResult = <<>>
    /\ CtxIdle
    /\ HooksIdle

\* the task form: a new id, any existing tasks as predecessors
AddTask ==
    /\ pc = "proj.idle"
    /\ edits < ProjMaxOps
    /\ Len(project.tasks) < ProjMaxTasks
    /\ \E id \in (1..ProjMaxId) \ TaskIds(project.tasks) :
       \E d \in ProjDurations :
       \E predIds \in SUBSET TaskIds(project.tasks) :
           TasksChanged(addTask(project.tasks, id, d, predIds), "addTask")

\* the edit dialog, id unchanged: any other tasks as predecessors
UpdateTask ==
    /\ pc = "proj.idle"
    /\ edits < ProjMaxOps
    /\ \E k \in DOMAIN project.tasks :
       \E d \in ProjDurations :
       \E predIds \in SUBSET (TaskIds(project.tasks) \ {project.tasks[k].id}) :
           TasksChanged(updateTask(project.tasks,
                                   EditedTask(project.tasks[k], project.tasks[k].id,
                                              d, predIds)),
                        "updateTask")

\* updateTasks with one or two of the project's tasks, each with a new
\* duration
UpdateTasks ==
    /\ pc = "proj.idle"
    /\ edits < ProjMaxOps
    /\ \E i, j \in DOMAIN project.tasks :
       \E d \in ProjDurations :
           TasksChanged(updateTasks(project.tasks,
                            IF i = j
                            THEN <<[project.tasks[i] EXCEPT !.duration = d]>>
                            ELSE <<[project.tasks[i] EXCEPT !.duration = d],
                                   [project.tasks[j] EXCEPT !.duration = d]>>),
                        "updateTasks")

\* the edit dialog's insertion before the selected task, with or without
\* renumbering of the tasks from the selected one on
InsertTaskBefore ==
    /\ pc = "proj.idle"
    /\ edits < ProjMaxOps
    /\ Len(project.tasks) < ProjMaxTasks
    /\ \E k \in DOMAIN project.tasks :
          \/ \E newTaskId \in (1..ProjMaxId) \ TaskIds(project.tasks) :
                 TasksChanged(insertTaskBefore(project.tasks, project.tasks[k].id,
                                  newTaskId, 1, PredIds(project.tasks[k]), FALSE),
                              "insertTaskBefore")
          \/ /\ \A id \in TaskIds(project.tasks) : id + 1 <= ProjMaxId
             /\ TasksChanged(insertTaskBefore(project.tasks, project.tasks[k].id,
                                 project.tasks[k].id, 1, PredIds(project.tasks[k]), TRUE),
                             "insertTaskBefore")

RenumberTasks ==
    /\ pc = "proj.idle"
    /\ edits < ProjMaxOps
    /\ \E startIndex \in 1..ProjMaxId :
          /\ \A id \in TaskIds(project.tasks) : id >= startIndex => id + 1 <= ProjMaxId
          /\ TasksChanged(renumberTasks(project.tasks, startIndex, 1), "renumberTasks")

DeleteTask ==
    /\ pc = "proj.idle"
    /\ edits < ProjMaxOps
    /\ \E taskId \in TaskIds(project.tasks) :
           TasksChanged(deleteTask(project.tasks, taskId), "deleteTask")

ReorderTasks ==
    /\ pc = "proj.idle"
    /\ edits < ProjMaxOps
    /\ \E oldIndex, newIndex \in DOMAIN project.tasks :
           TasksChanged(reorderTasks(project.tasks, oldIndex, newIndex), "reorderTasks")

\* the edit dialog, id changed to one no task has
UpdateTaskWithNewId ==
    /\ pc = "proj.idle"
    /\ edits < ProjMaxOps
    /\ \E k \in DOMAIN project.tasks :
       \E id \in (1..ProjMaxId) \ TaskIds(project.tasks) :
       \E d \in ProjDurations :
       \E predIds \in SUBSET (TaskIds(project.tasks) \ {project.tasks[k].id}) :
           TasksChanged(updateTaskWithNewId(project.tasks, project.tasks[k].id,
                            EditedTask(project.tasks[k], id, d, predIds)),
                        "updateTaskWithNewId")

\* saveProject: the tasks are added to the saved projects
SaveProject ==
    /\ pc = "proj.idle"
    /\ edits < ProjMaxOps
    /\ Cardinality(project.saved \cup {project.tasks}) <= ProjMaxSaved
    /\ project' = [project EXCEPT !.saved = @ \cup {project.tasks}]
    /\ op' = "saveProject"
    /\ edits' = edits + 1
    /\ OnlyProjectChanges

\* loadProject(projectId) with the id of a saved project
LoadProject ==
    /\ pc = "proj.idle"
    /\ edits < ProjMaxOps
    /\ \E loaded \in project.saved :
           project' = [project EXCEPT !.tasks = loaded, !.isCalculated = FALSE,
                                      !.error = Null]
    /\ op' = "loadProject"
    /\ edits' = edits + 1
    /\ OnlyProjectChanges

\* loadProject(projectId) with an id no saved project has
LoadProjectNotFound ==
    /\ pc = "proj.idle"
    /\ edits < ProjMaxOps
    /\ project' = [project EXCEPT !.error = "Project not found"]
    /\ op' = "loadProjectNotFound"
    /\ edits' = edits + 1
    /\ OnlyProjectChanges

ClearProject ==
    /\ pc = "proj.idle"
    /\ edits < ProjMaxOps
    /\ project' = [InitialProject EXCEPT !.saved = project.saved]
    /\ op' = "clearProject"
    /\ edits' = edits + 1
    /\ OnlyProjectChanges

CalculateSchedule ==
    /\ pc = "proj.idle"
    /\ edits < ProjMaxOps
    /\ project' = calculateSchedule(project)
    /\ op' = "calculateSchedule"
    /\ edits' = edits + 1
    /\ OnlyProjectChanges

NextProject ==
    \/ AddTask
    \/ UpdateTask
    \/ UpdateTasks
    \/ InsertTaskBefore
    \/ RenumberTasks
    \/ DeleteTask
    \/ ReorderTasks
    \/ UpdateTaskWithNewId
    \/ SaveProject
    \/ LoadProject
    \/ LoadProjectNotFound
    \/ ClearProject
    \/ CalculateSchedule

\* the project hook driven by any bounded sequence of its operations
ProjectSpec == InitProject /\ [][NextProject]_vars

----------------------------------------------------------------------------
(* The specifications *)

Init == InitCrash

Next == NextCrash

\* crashProject on every bounded crash task list
Spec == Init /\ [][Next]_vars

\* the three engine operations, each on every bounded input
EngineSpec ==
    /\ InitCrash \/ InitScheduler \/ InitSlackTimes
    /\ [][NextCrash \/ NextScheduler \/ SlackTimes]_vars

----------------------------------------------------------------------------
(* crashProject: properties of the result *)

\* C1: every costAnalysis entry after the first has a projectDuration strictly
\* below the projectDuration of the entry before it.
C1_DurationStrictlyDecreases ==
    \A i \in 2..Len(costAnalysis) :
        costAnalysis[i].projectDuration < costAnalysis[i - 1].projectDuration

\* crashProject has returned after three committed iterations
C1_ThreeCommits == pc = "crash.done" /\ Len(costAnalysis) >= 4

\* C2: in every snapshot of the history every task has
\* crashTime <= duration <= normalTime and maxCrashTime >= 0.
C2_SnapshotsWithinBounds ==
    \A s \in DOMAIN crashedTasksHistory :
        \A k \in DOMAIN crashedTasksHistory[s] :
            LET t == crashedTasksHistory[s][k]
            IN  /\ t.crashTime <= t.duration
                /\ t.duration <= t.normalTime
                /\ t.maxCrashTime >= 0

\* crashProject has returned a history in which a task was taken from a normal
\* time at least two above its crash time down to its crash time
C2_CrashedToCrashTime ==
    /\ pc = "crash.done"
    /\ \E k \in DOMAIN currentTasks :
          LET t == crashedTasksHistory[Len(crashedTasksHistory)][k]
          IN  /\ t.duration = t.crashTime
              /\ t.normalTime >= t.crashTime + 2
              /\ t.maxCrashTime = 0

\* the indices of costAnalysis flagged isOptimum
OptimumIndices == {i \in DOMAIN costAnalysis : costAnalysis[i].isOptimum}

TotalCapacity(ts) == SumSeq(MapSeq(ts, LAMBDA t : t.maxCrashTime))

\* no task of the input is reachable from itself through predecessor edges
InputAcyclic == ~HasCycle(PredMap(tasks))

\* a pass of the loop either commits, and then takes at least one unit off the
\* total remaining capacity, or ends the loop with nothing committed
PassCommitsOrEnds ==
    pc = "crash.loop" =>
        \/ /\ pc' = "crash.loop"
           /\ iteration' = iteration + 1
           /\ Len(crashedTasksHistory') = Len(crashedTasksHistory) + 1
           /\ TotalCapacity(currentTasks') < TotalCapacity(currentTasks)
        \/ /\ pc' = "crash.post"
           /\ iteration' = iteration
           /\ currentTasks' = currentTasks
           /\ crashedTasksHistory' = crashedTasksHistory

\* C4: on an acyclic network every committed pass of the loop strictly
\* decreases the total remaining crash capacity, which is never negative,
\* every other pass ends the loop, and the number of committed iterations
\* never exceeds the sum over tasks of normalTime - crashTime.
C4_CapacityBoundsCommits ==
    /\ [][InputAcyclic => PassCommitsOrEnds]_vars
    /\ [](InputAcyclic =>
            /\ TotalCapacity(currentTasks) >= 0
            /\ iteration <= SumSeq(MapSeq(tasks, LAMBDA t : t.normalTime - t.crashTime)))

\* crashProject has returned for an acyclic network after using up, in three
\* committed iterations, all the capacity its tasks had
C4_CapacityUsedUp ==
    /\ pc = "crash.done"
    /\ InputAcyclic
    /\ iteration >= 3
    /\ iteration = SumSeq(MapSeq(tasks, LAMBDA t : t.normalTime - t.crashTime))

\* C10: a committed iteration that began with two or more critical paths
\* crashed at least one task of each of them, and each of them is at least one
\* unit shorter than before.
C10_EveryCriticalPathShortened ==
    (attempt.committed /\ Len(attempt.critical) >= 2) =>
        \A c \in DOMAIN attempt.critical :
            LET p == historicalPaths[attempt.critical[c]]
            IN  /\ Range(p.tasks) \cap Range(attempt.selected) # {}
                /\ Range(p.tasks) \cap Range(costAnalysis[iteration + 1].crashedActivities) # {}
                /\ p.durations[iteration + 1] <= p.durations[iteration] - 1

\* an iteration was committed that began with two critical paths sharing no
\* task
C10_DisjointCriticalPathsCommitted ==
    /\ attempt.committed
    /\ \E c, d \in DOMAIN attempt.critical :
          Range(historicalPaths[attempt.critical[c]].tasks)
              \cap Range(historicalPaths[attempt.critical[d]].tasks) = {}

----------------------------------------------------------------------------
(* ProjectScheduler: properties of the schedule *)

\* calculateSchedule has returned for a list that is not empty
ScheduleComputed == pc = "sched.done" /\ Len(thisTasks) > 0

\* Math.max over the durations of the paths getAllPaths() returns
LongestPathDuration == MaxSeq(0, MapSeq(thisPaths, LAMBDA p : p.duration))

\* C5: once calculateSchedule has succeeded, getProjectDuration() is the
\* greatest duration among the paths getAllPaths() returns.
C5_DurationIsLongestPath ==
    ScheduleComputed => getProjectDuration(thisTasks) = LongestPathDuration

\* C6: once calculateSchedule has succeeded on a network with one start task
\* and one end task, a task is flagged isCritical iff it lies on an enumerated
\* path whose duration is the project duration.
C6_CriticalIffOnLongestPath ==
    (/\ ScheduleComputed
     /\ Len(StartIndices(thisTasks)) = 1
     /\ Len(findEndTasks(thisTasks)) = 1) =>
        \A k \in DOMAIN thisTasks :
            thisTasks[k].isCritical <=>
                \E q \in DOMAIN thisPaths :
                    /\ thisTasks[k].id \in Range(thisPaths[q].tasks)
                    /\ thisPaths[q].duration = getProjectDuration(thisTasks)

\* this.tasks carries no early or late date, no slack and no critical flag
NothingAssigned ==
    \A k \in DOMAIN thisTasks :
        /\ thisTasks[k].earlyStart = Undefined
        /\ thisTasks[k].earlyFinish = Undefined
        /\ thisTasks[k].lateStart = Undefined
        /\ thisTasks[k].lateFinish = Undefined
        /\ thisTasks[k].slack = Undefined
        /\ thisTasks[k].isCritical = FALSE

\* C7: calculateSchedule on a task list in which some task is reachable from
\* itself through predecessor edges gets past the validation only by
\* throwing, and when it has thrown no date, slack or critical flag is
\* assigned and no path is stored.
C7_CycleThrowsBeforeDates ==
    /\ (HasCycle(PredMap(tasks)) /\ pc \notin {"sched.new", "sched.validate"})
           => pc = "sched.thrown"
    /\ pc = "sched.thrown" =>
           /\ HasCycle(PredMap(tasks))
           /\ NothingAssigned
           /\ thisPaths = <<>>
           /\ thisCriticalPaths = <<>>

\* calculateSchedule has thrown for a list whose first task is on no cycle
\* and whose last task lists itself as a predecessor
C7_SelfPredecessorThrown ==
    /\ pc = "sched.thrown"
    /\ Len(tasks) >= 2
    /\ tasks[1].predecessors = {}
    /\ tasks[Len(tasks)].id \in PredIds(tasks[Len(tasks)])

----------------------------------------------------------------------------
(* ProjectCrashingProvider: properties of performCrashing *)

\* the context holds an input performCrashing has to reject: no task, no task
\* without predecessors, no task that nothing lists as a predecessor, or a
\* negative cost
InputToReject ==
    \/ ctx.crashTasks = <<>>
    \/ \A k \in DOMAIN ctx.crashTasks : ctx.crashTasks[k].predecessors # {}
    \/ \A k \in DOMAIN ctx.crashTasks :
          \E j \in DOMAIN ctx.crashTasks : ctx.crashTasks[k].id \in PredIds(ctx.crashTasks[j])
    \/ ctx.indirectCost < 0
    \/ ctx.reductionPerUnit < 0

\* the stored crash results
StoredResults(c) ==
    <<c.crashPaths, c.criticalCrashPaths, c.costAnalysis, c.crashedTasksHistory,
      c.totalIterations, c.isCrashed>>

\* C8: a call of performCrashing on an input to reject stores an error, does
\* not call crashProject, and leaves the stored crash results as they were.
C8_RejectedBeforeAnyIteration ==
    [][(pc = "ctx.idle" /\ op' = "performCrashing" /\ InputToReject) =>
          /\ ctx'.error # Null
          /\ pc' = "ctx.idle"
          /\ UNCHANGED <<tasks, crashVars>>
          /\ StoredResults(ctx') = StoredResults(ctx)
          /\ ctx'.crashTasks = ctx.crashTasks]_vars

\* performCrashing has rejected a task list without an end task while the
\* context held the results of an earlier run with committed iterations
C8_RejectedWithResultsStored ==
    /\ pc = "ctx.idle"
    /\ op = "performCrashing"
    /\ ctx.error = "No end tasks found"
    /\ ctx.isCrashed
    /\ ctx.totalIterations >= 1
    /\ Len(ctx.costAnalysis) >= 2

----------------------------------------------------------------------------
(* The engine operations and the caller's task list *)

----------------------------------------------------------------------------
(* C11 *)

\* the snapshot the last committed pass started from
SnapshotBeforeCommit == crashedTasksHistory[Len(crashedTasksHistory) - 1]

\* the last pass committed on a network that has one path only, which is
\* then the one critical path of every iteration
CommittedOnOnlyPath ==
    /\ pc \in {"crash.loop", "crash.post", "crash.done"}
    /\ attempt.committed
    /\ Len(historicalPaths) = 1

\* C11: on a network with one critical path at every iteration, a task Y is
\* crashed in an iteration only if every task of the path whose slope is
\* strictly smaller than Y's, for slopes >= 0, has no crash capacity left at
\* that iteration.
C11_SinglePathCrashesMinSlope ==
    CommittedOnOnlyPath =>
        \A y \in Range(attempt.selected) :
            \A x \in Range(historicalPaths[1].tasks) :
                SlopeOfId(SnapshotBeforeCommit, x) < SlopeOfId(SnapshotBeforeCommit, y)
                    => ~IsCrashable(SnapshotBeforeCommit, x)

\* the same statement for the paths whose crashable tasks all have a slope
\* above zero
C11_HoldsForPositiveSlopes ==
    (/\ CommittedOnOnlyPath
     /\ \A x \in Range(historicalPaths[1].tasks) :
            IsCrashable(SnapshotBeforeCommit, x) => SlopeOfId(SnapshotBeforeCommit, x) > 0)
        => \A y \in Range(attempt.selected) :
               \A x \in Range(historicalPaths[1].tasks) :
                   SlopeOfId(SnapshotBeforeCommit, x) < SlopeOfId(SnapshotBeforeCommit, y)
                       => ~IsCrashable(SnapshotBeforeCommit, x)

----------------------------------------------------------------------------
(* C12 *)

\* the ids of the tasks that are shorter in snapshot i than in snapshot i - 1
DecrementedIn(i) ==
    {crashedTasksHistory[i][k].id : k \in
        {k \in DOMAIN crashedTasksHistory[i] :
            crashedTasksHistory[i][k].duration < crashedTasksHistory[i - 1][k].duration}}

\* C12: for every committed iteration i > 0, crashCost is the sum of the
\* slopes of the tasks whose duration was decremented in that iteration, which
\* are the tasks listed in crashedActivities, and directCost is the previous
\* directCost plus that crashCost; entry 0 has the sum of normalCost over all
\* tasks as directCost and a crashCost of 0.
C12_CrashCostIsSumOfSlopes ==
    (pc \in {"crash.loop", "crash.post", "crash.done"}) =>
        /\ costAnalysis[1].directCost = SumSeq(MapSeq(tasks, LAMBDA t : t.normalCost))
        /\ costAnalysis[1].crashCost = 0
        /\ \A i \in 2..Len(costAnalysis) :
            /\ DecrementedIn(i) = Range(costAnalysis[i].crashedActivities)
            /\ Len(costAnalysis[i].crashedActivities) = Cardinality(DecrementedIn(i))
            /\ costAnalysis[i].crashCost =
                   SumSeq(MapSeq(costAnalysis[i].crashedActivities,
                                 LAMBDA id : SlopeOfId(tasks, id)))
            /\ costAnalysis[i].directCost =
                   costAnalysis[i - 1].directCost + costAnalysis[i].crashCost

\* a committed iteration that crashed two tasks of different slopes above zero
C12_TwoTasksCrashedAtCost ==
    /\ pc = "crash.done"
    /\ \E i \in 2..Len(costAnalysis) :
        /\ Len(costAnalysis[i].crashedActivities) = 2
        /\ SlopeOfId(tasks, costAnalysis[i].crashedActivities[1]) > 0
        /\ SlopeOfId(tasks, costAnalysis[i].crashedActivities[2]) > 0
        /\ SlopeOfId(tasks, costAnalysis[i].crashedActivities[1])
               # SlopeOfId(tasks, costAnalysis[i].crashedActivities[2])

----------------------------------------------------------------------------
(* C13 *)

\* C13: every entry i of costAnalysis has indirectCost = indirectCostInput -
\* (projectDuration[0] - projectDuration[i]) * reductionPerUnit and
\* totalCost = directCost + indirectCost.
C13_IndirectAndTotalCost ==
    \A i \in DOMAIN costAnalysis :
        /\ costAnalysis[i].indirectCost =
               indirectCostInput
                   - (costAnalysis[1].projectDuration - costAnalysis[i].projectDuration)
                       * reductionPerUnitInput
        /\ costAnalysis[i].totalCost =
               costAnalysis[i].directCost + costAnalysis[i].indirectCost

\* a run with a reduction per unit above zero that shortened the project by
\* two units or more
C13_TwoUnitsReduced ==
    /\ pc = "crash.done"
    /\ reductionPerUnitInput > 0
    /\ Len(costAnalysis) >= 3
    /\ costAnalysis[Len(costAnalysis)].indirectCost < indirectCostInput - reductionPerUnitInput

----------------------------------------------------------------------------
(* C14 *)

\* snapshot i is snapshot i - 1 with the duration and the maxCrashTime of
\* each task of crashedActivities lower by one, and nothing else changed
SnapshotFollows(i) ==
    /\ Len(crashedTasksHistory[i]) = Len(crashedTasksHistory[i - 1])
    /\ \A k \in DOMAIN crashedTasksHistory[i] :
        LET before == crashedTasksHistory[i - 1][k]
            after == crashedTasksHistory[i][k]
        IN  IF before.id \in Range(costAnalysis[i].crashedActivities)
            THEN after = [before EXCEPT !.duration = before.duration - 1,
                                        !.maxCrashTime = before.maxCrashTime - 1]
            ELSE after = before

\* a step of the loop leaves every snapshot recorded so far as it is
RecordedSnapshotsKept ==
    pc \in {"crash.loop", "crash.post"} =>
        \A i \in DOMAIN crashedTasksHistory :
            /\ i \in DOMAIN crashedTasksHistory'
            /\ crashedTasksHistory'[i] = crashedTasksHistory[i]

\* C14: in the history of crashProject snapshot 0 has every duration equal to
\* normalTime and is otherwise the input; for i > 0 snapshot i equals snapshot
\* i - 1 except that each task of costAnalysis[i].crashedActivities has its
\* duration and maxCrashTime lower by exactly 1; and no recorded snapshot
\* changes when a later one is appended.
C14_HistoryOfUnitDecrements ==
    /\ [](pc \in {"crash.loop", "crash.post", "crash.done"} =>
            /\ Len(crashedTasksHistory) = Len(costAnalysis)
            /\ crashedTasksHistory[1] =
                   [k \in DOMAIN tasks |-> [tasks[k] EXCEPT !.duration = tasks[k].normalTime]]
            /\ \A i \in 2..Len(crashedTasksHistory) : SnapshotFollows(i))
    /\ [][RecordedSnapshotsKept]_vars

\* a history of three snapshots or more, one of them made by crashing two
\* tasks of a list of three
C14_TwoOfThreeCrashed ==
    /\ pc = "crash.done"
    /\ Len(tasks) = 3
    /\ Len(crashedTasksHistory) >= 3
    /\ \E i \in 2..Len(costAnalysis) : Len(costAnalysis[i].crashedActivities) = 2

----------------------------------------------------------------------------
(* C15 *)

\* the pass of the loop taken in this step made an attempt that does not
\* lower the project duration
AttemptNotLowering ==
    /\ pc = "crash.loop"
    /\ attempt'.selected # <<>>
    /\ MaxPathDuration(calculateAllPaths(
           HypotheticalNextTasksState(currentTasks, attempt'.selected)))
         >= previousCommittedMaxDuration

\* C15: when crashProject returns exactly one costAnalysis entry has
\* isCrashPoint = true and it is the last one; an attempted step that does
\* not lower the project duration appends nothing to the task history, to
\* costAnalysis or to any path's durations.
C15_CrashPointLastNothingAppended ==
    /\ [](pc = "crash.done" =>
            {i \in DOMAIN costAnalysis : costAnalysis[i].isCrashPoint}
                = {Len(costAnalysis)})
    /\ [][AttemptNotLowering =>
            /\ crashedTasksHistory' = crashedTasksHistory
            /\ Len(costAnalysis') = Len(costAnalysis)
            /\ \A k \in DOMAIN historicalPaths :
                   historicalPaths'[k].durations = historicalPaths[k].durations
            /\ Len(historicalPaths') = Len(historicalPaths)]_vars

\* a run returned after a committed iteration and a last attempt that did
\* not lower the project duration
C15_StoppedByFailedAttempt ==
    /\ pc = "crash.done"
    /\ attempt.selected # <<>>
    /\ ~attempt.committed
    /\ Len(costAnalysis) >= 2

----------------------------------------------------------------------------
(* C16 *)

\* crashTasks holds a dependency cycle and still has a start task and an end
\* task, and the two costs are not negative
CyclicInputWithStartAndEnd ==
    /\ Len(ctx.crashTasks) > 0
    /\ HasCycle(PredMap(ctx.crashTasks))
    /\ StartIndices(ctx.crashTasks) # <<>>
    /\ EndIndices(ctx.crashTasks) # <<>>
    /\ ctx.indirectCost >= 0
    /\ ctx.reductionPerUnit >= 0

\* C16: performCrashing on a task set that holds a dependency cycle, while it
\* has a start task and an end task, is rejected with an error before any
\* iteration: crashProject produces no cost analysis and no history for it.
C16_CyclicInputRejected ==
    [][(pc = "ctx.idle" /\ op' = "performCrashing" /\ CyclicInputWithStartAndEnd) =>
          /\ ctx'.error # Null
          /\ pc' = "ctx.idle"
          /\ UNCHANGED <<tasks, crashVars>>]_vars

\* the results of a run on a cyclic task set are stored, with a committed
\* iteration among them
C16_CyclicRunStored ==
    /\ pc = "ctx.idle"
    /\ op = "performCrashing"
    /\ ctx.error = Null
    /\ ctx.isCrashed
    /\ HasCycle(PredMap(ctx.crashTasks))
    /\ Len(ctx.costAnalysis) >= 2

----------------------------------------------------------------------------
(* C17 *)

\* some predecessor taskId of the list matches no task of the list
HasStaleReference(ts) ==
    \E k \in DOMAIN ts : \E id \in PredIds(ts[k]) : IndexOfId(ts, id) = 0

\* C17: a task set in which some predecessor taskId matches no task of the
\* set is rejected with an error by the crashing run (and by
\* ProjectScheduler.calculateSchedule); the unresolved edge is never skipped
\* silently.
C17_StaleReferenceRejected ==
    [][(pc = "ctx.idle" /\ op' = "performCrashing" /\ HasStaleReference(ctx.crashTasks)) =>
          /\ ctx'.error # Null
          /\ pc' = "ctx.idle"
          /\ UNCHANGED <<tasks, crashVars>>]_vars

\* the results of a run on a task set with a stale reference are stored
C17_StaleRunStored ==
    /\ pc = "ctx.idle"
    /\ op = "performCrashing"
    /\ ctx.error = Null
    /\ ctx.isCrashed
    /\ HasStaleReference(ctx.crashTasks)
    /\ ~HasCycle(PredMap(ctx.crashTasks))
    /\ Len(ctx.costAnalysis) >= 2

\* calculateSchedule returned on a list with a stale reference and no cycle,
\* every task with its dates and slack
C17_StaleScheduleComputed ==
    /\ pc = "sched.done"
    /\ HasStaleReference(thisTasks)
    /\ \A k \in DOMAIN thisTasks :
        /\ IsNum(thisTasks[k].earlyStart)
        /\ IsNum(thisTasks[k].lateFinish)
        /\ IsNum(thisTasks[k].slack)

\* calculateSchedule never throws on a list whose only fault is a stale
\* reference
C17_StaleScheduleNeverThrown ==
    (pc = "sched.thrown") => HasCycle(PredMap(thisTasks))

----------------------------------------------------------------------------
(* C18 *)

\* the last pass committed with two or more critical paths
CommittedOnSeveralPaths ==
    /\ pc \in {"crash.loop", "crash.post", "crash.done"}
    /\ attempt.committed
    /\ Len(attempt.critical) >= 2

\* the ids of the tasks of ts that can still be crashed
CrashableIds(ts) == {ts[k].id : k \in {k \in DOMAIN ts : IsCrashable(ts, ts[k].id)}}

\* the sum of the slopes of the tasks of ts whose id is in S
SlopeSum(ts, S) == SumSeq(MapSeq(ts, LAMBDA t : IF t.id \in S THEN t.slope ELSE 0))

\* ts with every task of S one unit shorter
OneUnitShorter(ts, S) ==
    MapSeq(ts, LAMBDA t : IF t.id \in S THEN [t EXCEPT !.duration = t.duration - 1] ELSE t)

\* crashing the tasks of S by one unit shortens every path of critical
ShortensEveryPath(ts, S, critical) ==
    \A c \in DOMAIN critical :
        PathDuration(OneUnitShorter(ts, S), historicalPaths[critical[c]].tasks)
            < PathDuration(ts, historicalPaths[critical[c]].tasks)

\* C18: when two or more paths are critical, the set of tasks crashed in a
\* committed iteration has the lowest total slope among all sets of crashable
\* tasks, of any size, whose simultaneous one-unit crash shortens every
\* current critical path.
C18_LowestTotalSlope ==
    CommittedOnSeveralPaths =>
        \A S \in SUBSET CrashableIds(SnapshotBeforeCommit) :
            ShortensEveryPath(SnapshotBeforeCommit, S, attempt.critical)
                => SlopeSum(SnapshotBeforeCommit, Range(attempt.selected))
                       <= SlopeSum(SnapshotBeforeCommit, S)

\* the same statement for the iterations in which every crashable task has a
\* slope above zero
C18_HoldsForPositiveSlopes ==
    (/\ CommittedOnSeveralPaths
     /\ \A id \in CrashableIds(SnapshotBeforeCommit) :
            SlopeOfId(SnapshotBeforeCommit, id) > 0)
        => \A S \in SUBSET CrashableIds(SnapshotBeforeCommit) :
               ShortensEveryPath(SnapshotBeforeCommit, S, attempt.critical)
                   => SlopeSum(SnapshotBeforeCommit, Range(attempt.selected))
                          <= SlopeSum(SnapshotBeforeCommit, S)

----------------------------------------------------------------------------
(* C19 *)

\* the crashable tasks of ts that lie on every path of critical
CommonCrashableIds(ts, critical) ==
    {id \in CrashableIds(ts) :
        \A c \in DOMAIN critical : id \in Range(historicalPaths[critical[c]].tasks)}

\* C19: whenever two or more paths are critical and some crashable task lies
\* on every current critical path, the iteration crashes exactly one task, a
\* common task of minimum slope among the common crashable tasks, whatever
\* other combinations exist.
C19_CommonTaskAloneIsCrashed ==
    (CommittedOnSeveralPaths
        /\ CommonCrashableIds(SnapshotBeforeCommit, attempt.critical) # {}) =>
        /\ Len(attempt.selected) = 1
        /\ attempt.selected[1] \in CommonCrashableIds(SnapshotBeforeCommit, attempt.critical)
        /\ \A id \in CommonCrashableIds(SnapshotBeforeCommit, attempt.critical) :
               SlopeOfId(SnapshotBeforeCommit, attempt.selected[1])
                   <= SlopeOfId(SnapshotBeforeCommit, id)

\* the same statement for the iterations in which every crashable task has a
\* slope above zero
C19_CommonTaskAloneForPositiveSlopes ==
    (/\ CommittedOnSeveralPaths
     /\ CommonCrashableIds(SnapshotBeforeCommit, attempt.critical) # {}
     /\ \A id \in CrashableIds(SnapshotBeforeCommit) :
            SlopeOfId(SnapshotBeforeCommit, id) > 0) =>
        /\ Len(attempt.selected) = 1
        /\ attempt.selected[1] \in CommonCrashableIds(SnapshotBeforeCommit, attempt.critical)
        /\ \A id \in CommonCrashableIds(SnapshotBeforeCommit, attempt.critical) :
               SlopeOfId(SnapshotBeforeCommit, attempt.selected[1])
                   <= SlopeOfId(SnapshotBeforeCommit, id)

----------------------------------------------------------------------------
(* C20 *)

\* the task states the last pass of the loop selected from
AttemptTasks == IF attempt.committed THEN SnapshotBeforeCommit ELSE currentTasks

\* the last pass found several critical paths with a crashable task on them,
\* and no set of crashable tasks, a single common task included, shortens
\* every critical path
AttemptWithoutCover ==
    /\ pc \in {"crash.loop", "crash.post", "crash.done"}
    /\ Len(attempt.critical) >= 2
    /\ attempt.crashable # <<>>
    /\ \A S \in SUBSET CrashableIds(AttemptTasks) :
           ~ShortensEveryPath(AttemptTasks, S, attempt.critical)

\* C20: when several paths are critical and neither a common crashable task
\* nor a combination covering every critical path exists, the attempt
\* selects exactly one task, the crashable task of minimum slope.
C20_FallbackSelectsOneTask ==
    AttemptWithoutCover =>
        /\ Len(attempt.selected) = 1
        /\ \A id \in Range(attempt.crashable) :
               OrInfinity(SlopeOfId(AttemptTasks, attempt.selected[1]))
                   <= OrInfinity(SlopeOfId(AttemptTasks, id))

\* an attempt without a cover that had one crashable task to select from
C20_FallbackWithOneCrashable ==
    /\ AttemptWithoutCover
    /\ attempt.branch = "fallback"
    /\ Len(attempt.crashable) = 1
    /\ attempt.selected = attempt.crashable

----------------------------------------------------------------------------
(* C21 *)

\* predecessor.earlyFinish + lag over the predecessor edges of the task at
\* index k (some edge exists, every predecessor has an earlyFinish)
EarlyStartCandidates(ts, k) ==
    {ts[IndexOfId(ts, p.taskId)].earlyFinish[1] + p.lag : p \in ts[k].predecessors}

SetMax(S) == CHOOSE m \in S : \A x \in S : x <= m

SetMin(S) == CHOOSE m \in S : \A x \in S : m <= x

\* the early dates of every task follow the forward-pass rule
EarlyDatesByRule(ts) ==
    \A k \in DOMAIN ts :
        /\ IsNum(ts[k].earlyStart)
        /\ IsNum(ts[k].earlyFinish)
        /\ ts[k].predecessors = {} => ts[k].earlyStart = Num(0)
        /\ ts[k].predecessors # {} =>
               /\ \A p \in ts[k].predecessors :
                      IsNum(ts[IndexOfId(ts, p.taskId)].earlyFinish)
               /\ ts[k].earlyStart = Num(SetMax(EarlyStartCandidates(ts, k)))
        /\ ts[k].earlyFinish = AddNum(ts[k].earlyStart, ts[k].duration)

\* C21: once calculateSchedule has succeeded, every start task has
\* earlyStart = 0, every task with a predecessor has earlyStart equal to the
\* greatest predecessor.earlyFinish + lag over its predecessor edges, whatever
\* the sign of the lag, and every task has earlyFinish = earlyStart + duration.
C21_EarlyDatesFollowRule ==
    ScheduleComputed => EarlyDatesByRule(thisTasks)

\* the same for the task lists in which every task with a predecessor has an
\* edge whose predecessor.earlyFinish + lag is at least 0
C21_HoldsWithoutNegativeCandidates ==
    (/\ ScheduleComputed
     /\ \A k \in DOMAIN thisTasks :
            thisTasks[k].predecessors # {} =>
                \E p \in thisTasks[k].predecessors :
                    NumOrZero(thisTasks[IndexOfId(thisTasks, p.taskId)].earlyFinish)
                        + p.lag >= 0)
        => EarlyDatesByRule(thisTasks)

----------------------------------------------------------------------------
(* C22 *)

\* successor.lateStart - lag over the edges from the task at index k to its
\* successors (every successor has a lateStart)
LateFinishCandidates(ts, k) ==
    UNION {{ts[j].lateStart[1] - p.lag : p \in FindPred(ts[j], ts[k].id)} :
              j \in Range(SuccessorIndices(ts, ts[k].id))}

\* the greatest earlyFinish among the end tasks
EndTasksEarlyFinish(ts) ==
    SetMax({ts[k].earlyFinish[1] : k \in Range(findEndTasks(ts))})

\* the late dates of every task follow the backward-pass rule
LateDatesByRule(ts) ==
    \A k \in DOMAIN ts :
        /\ IsNum(ts[k].lateStart)
        /\ IsNum(ts[k].lateFinish)
        /\ k \in Range(findEndTasks(ts)) =>
               ts[k].lateFinish = Num(EndTasksEarlyFinish(ts))
        /\ k \notin Range(findEndTasks(ts)) =>
               ts[k].lateFinish = Num(SetMin(LateFinishCandidates(ts, k)))
        /\ ts[k].lateStart = AddNum(ts[k].lateFinish, 0 - ts[k].duration)

\* C22: once calculateSchedule has succeeded, every end task has lateFinish
\* equal to the greatest earlyFinish among the end tasks, every task with a
\* successor has lateFinish equal to the least successor.lateStart - lag over
\* its successors, and every task has lateStart = lateFinish - duration.
C22_LateDatesFollowRule ==
    ScheduleComputed => LateDatesByRule(thisTasks)

\* calculateSchedule has returned for a list in which a task has two
\* successors, reached over edges of different lags, one of them negative,
\* that give different lateFinish candidates
C22_TwoSuccessorsDifferentLags ==
    /\ ScheduleComputed
    /\ \E k \in DOMAIN thisTasks :
          /\ Len(SuccessorIndices(thisTasks, thisTasks[k].id)) = 2
          /\ Cardinality(LateFinishCandidates(thisTasks, k)) = 2
          /\ \E i, j \in Range(SuccessorIndices(thisTasks, thisTasks[k].id)) :
                /\ \E p \in FindPred(thisTasks[i], thisTasks[k].id) : p.lag < 0
                /\ \E p \in FindPred(thisTasks[j], thisTasks[k].id) : p.lag > 0

----------------------------------------------------------------------------
(* C23 *)

\* the simple routes of a task list: the sequences of distinct task ids that
\* begin at a task without predecessors, end at a task nothing lists as a
\* predecessor, and step from a task to one that lists it as a predecessor
Routes(ts) ==
    LET ids == {ts[i].id : i \in DOMAIN ts}
    IN  {r \in UNION {[1..m -> ids] : m \in 1..Len(ts)} :
            /\ ts[IndexOfId(ts, r[1])].predecessors = {}
            /\ \A j \in DOMAIN ts : r[Len(r)] \notin PredIds(ts[j])
            /\ \A a, b \in DOMAIN r : a # b => r[a] # r[b]
            /\ \A a \in 1..(Len(r) - 1) : r[a] \in PredIds(ts[IndexOfId(ts, r[a + 1])])}

\* the sum of the durations of the tasks of a route
RouteDuration(ts, r) == SumSeq([a \in DOMAIN r |-> ts[IndexOfId(ts, r[a])].duration])

\* a sequence of paths lists every route of ts once and nothing else
ListsEveryRouteOnce(paths, ts) ==
    /\ {paths[q].tasks : q \in DOMAIN paths} = Routes(ts)
    /\ \A q, o \in DOMAIN paths : q # o => paths[q].tasks # paths[o].tasks

\* C23: on an acyclic network the paths of ProjectScheduler.getAllPaths and of
\* ProjectCrashingService.calculateAllPaths are the simple routes from a start
\* task to an end task, each of them once; no path repeats a task, and the
\* duration of a path is the sum of the durations of its tasks.
C23_PathsAreTheSimpleRoutes ==
    /\ ScheduleComputed =>
           /\ ListsEveryRouteOnce(thisPaths, thisTasks)
           /\ \A q \in DOMAIN thisPaths :
                  thisPaths[q].duration = RouteDuration(thisTasks, thisPaths[q].tasks)
    /\ (pc = "crash.loop" /\ iteration = 0 /\ InputAcyclic) =>
           /\ ListsEveryRouteOnce(historicalPaths, currentTasks)
           /\ \A q \in DOMAIN historicalPaths :
                  historicalPaths[q].durations =
                      <<RouteDuration(currentTasks, historicalPaths[q].tasks)>>

\* calculateSchedule has returned two routes between the same start and end
\* task, one over a third task and one direct
C23_TwoRoutesBetweenSameEnds ==
    /\ ScheduleComputed
    /\ \E q, o \in DOMAIN thisPaths :
          /\ q # o
          /\ thisPaths[q].tasks[1] = thisPaths[o].tasks[1]
          /\ Len(thisPaths[q].tasks) = 3
          /\ Len(thisPaths[o].tasks) = 2
          /\ thisPaths[q].tasks[3] = thisPaths[o].tasks[2]

\* calculateAllPaths has returned paths from two start tasks, of different
\* durations, to one end task
C23_CrashPathsFromTwoStarts ==
    /\ pc = "crash.loop"
    /\ iteration = 0
    /\ \E q, o \in DOMAIN historicalPaths :
          /\ historicalPaths[q].tasks[1] # historicalPaths[o].tasks[1]
          /\ historicalPaths[q].durations # historicalPaths[o].durations
          /\ historicalPaths[q].tasks[Len(historicalPaths[q].tasks)]
                = historicalPaths[o].tasks[Len(historicalPaths[o].tasks)]

----------------------------------------------------------------------------
(* C24 *)

\* the input with every task at its crash time
FullyCrashed(ts) == MapSeq(ts, LAMBDA t : [t EXCEPT !.duration = t.crashTime])

\* the length of the longest route of the input when every task is at its
\* crash time
ShortestReachableDuration ==
    SetMax({RouteDuration(FullyCrashed(tasks), r) : r \in Routes(tasks)})

\* some path that is critical in the current state has no task with crash
\* capacity left
SomeCriticalPathExhausted ==
    \E c \in Range(CurrentCriticalPaths(historicalPaths, iteration,
                                        previousCommittedMaxDuration)) :
        \A id \in Range(historicalPaths[c].tasks) : ~IsCrashable(currentTasks, id)

\* C24: on an acyclic network of integer times the loop of crashProject ends
\* only when some critical path has no task with crash capacity left, and the
\* last projectDuration is the length of the longest route with every task at
\* its crash time.
C24_CrashedToShortestDuration ==
    (InputAcyclic /\ pc \in {"crash.post", "crash.done"}) =>
        /\ SomeCriticalPathExhausted
        /\ costAnalysis[Len(costAnalysis)].projectDuration = ShortestReachableDuration

\* crashProject has returned after two commits or more on a network of two
\* routes or more, with crash capacity left on some task
C24_StoppedWithCapacityLeft ==
    /\ pc = "crash.done"
    /\ InputAcyclic
    /\ iteration >= 2
    /\ Len(historicalPaths) >= 2
    /\ \E k \in DOMAIN currentTasks : IsCrashable(currentTasks, currentTasks[k].id)
    /\ costAnalysis[Len(costAnalysis)].projectDuration = ShortestReachableDuration

----------------------------------------------------------------------------
(* C25 *)

\* the sum over the tasks of a path of their duration in a snapshot
DurationInSnapshot(snapshot, p) ==
    SumSeq([a \in DOMAIN p.tasks |-> snapshot[IndexOfId(snapshot, p.tasks[a])].duration])

\* C25: crashedTasks, costAnalysis and the durations array of every path have
\* the same length; entry i of a path's durations is the sum over the tasks of
\* the path of their duration in snapshot i, and costAnalysis[i].projectDuration
\* is the greatest entry i over all paths.
C25_HistoriesAligned ==
    pc \in {"crash.loop", "crash.post", "crash.done"} =>
        /\ Len(costAnalysis) = Len(crashedTasksHistory)
        /\ \A q \in DOMAIN historicalPaths :
              /\ Len(historicalPaths[q].durations) = Len(crashedTasksHistory)
              /\ \A i \in DOMAIN crashedTasksHistory :
                    historicalPaths[q].durations[i] =
                        DurationInSnapshot(crashedTasksHistory[i], historicalPaths[q])
        /\ historicalPaths # <<>> =>
              \A i \in DOMAIN costAnalysis :
                  costAnalysis[i].projectDuration =
                      SetMax({historicalPaths[q].durations[i] : q \in DOMAIN historicalPaths})

\* crashProject has returned three entries or more for two paths or more, one
\* of which kept its duration over a commit while the project got shorter
C25_PathUnchangedByCommit ==
    /\ pc = "crash.done"
    /\ Len(costAnalysis) >= 3
    /\ Len(historicalPaths) >= 2
    /\ \E q \in DOMAIN historicalPaths : \E i \in 2..Len(costAnalysis) :
          /\ historicalPaths[q].durations[i] = historicalPaths[q].durations[i - 1]
          /\ costAnalysis[i].projectDuration < costAnalysis[i - 1].projectDuration

----------------------------------------------------------------------------
(* C26 *)

\* every edge of the task list has lag 0
AllLagsZero(ts) == \A k \in DOMAIN ts : \A p \in ts[k].predecessors : p.lag = 0

\* the dates, the slack and the critical flag of two task objects agree
SameSchedule(a, b) ==
    /\ a.earlyStart = b.earlyStart
    /\ a.earlyFinish = b.earlyFinish
    /\ a.lateStart = b.lateStart
    /\ a.lateFinish = b.lateFinish
    /\ a.slack = b.slack
    /\ a.isCritical = b.isCritical

\* calculateSlackTimes has returned for a list calculateSchedule has scheduled
BothComputed == pc = "slack.done" /\ Len(thisTasks) > 0

\* C26: on an acyclic task list whose lags are all 0, calculateSlackTimes
\* returns for every task the earlyStart, earlyFinish, lateStart, lateFinish,
\* slack and isCritical that calculateSchedule computes for the same list.
C26_SlackTimesAgreeWithSchedule ==
    (BothComputed /\ AllLagsZero(tasks)) =>
        /\ Len(slackResult) = Len(thisTasks)
        /\ \A k \in DOMAIN thisTasks :
              /\ slackResult[k].id = thisTasks[k].id
              /\ IsNum(slackResult[k].slack)
              /\ SameSchedule(slackResult[k], thisTasks[k])

\* both have returned for a list of three tasks with edges of lag 0, on which
\* one task has positive slack and another is critical
C26_ComparedWithSlackAndCritical ==
    /\ BothComputed
    /\ AllLagsZero(tasks)
    /\ Len(tasks) = 3
    /\ \E k \in DOMAIN tasks : tasks[k].predecessors # {}
    /\ \E k \in DOMAIN slackResult : slackResult[k].slack[1] > 0
    /\ \E k \in DOMAIN slackResult : slackResult[k].isCritical

\* both have returned for a list with a lag other than 0 and disagree on some task
C26_DisagreeOnNonZeroLag ==
    /\ BothComputed
    /\ ~AllLagsZero(tasks)
    /\ \E k \in DOMAIN thisTasks : ~SameSchedule(slackResult[k], thisTasks[k])

----------------------------------------------------------------------------
(* C27 *)

\* C27: once calculateSchedule has succeeded on a list of non-negative
\* durations whose lags are all 0, every task has its four dates and its slack
\* defined, with 0 <= earlyStart <= lateStart and
\* earlyFinish <= lateFinish <= project duration, so that no slack is negative.
C27_DatesOrderedSlackNotNegative ==
    (ScheduleComputed /\ AllLagsZero(thisTasks)) =>
        \A k \in DOMAIN thisTasks :
            LET t == thisTasks[k]
            IN  /\ IsNum(t.earlyStart) /\ IsNum(t.earlyFinish)
                /\ IsNum(t.lateStart) /\ IsNum(t.lateFinish)
                /\ IsNum(t.slack)
                /\ 0 <= t.earlyStart[1]
                /\ t.earlyStart[1] <= t.lateStart[1]
                /\ t.earlyFinish[1] <= t.lateFinish[1]
                /\ t.lateFinish[1] <= getProjectDuration(thisTasks)
                /\ t.slack[1] >= 0

\* calculateSchedule has returned for a list with a task of duration 0, two
\* end tasks of different earlyFinish and hence a task with positive slack
C27_ZeroDurationAndSlack ==
    /\ ScheduleComputed
    /\ AllLagsZero(thisTasks)
    /\ \E k \in DOMAIN thisTasks : thisTasks[k].duration = 0
    /\ \E i, j \in Range(findEndTasks(thisTasks)) :
          /\ thisTasks[i].earlyFinish # thisTasks[j].earlyFinish
          /\ thisTasks[i].slack[1] > 0

----------------------------------------------------------------------------
(* C28 *)

\* the operations of useProjectData that change the task list
TaskChangingOperations ==
    {"addTask", "updateTask", "updateTasks", "insertTaskBefore", "renumberTasks",
     "deleteTask", "reorderTasks", "updateTaskWithNewId", "loadProject", "clearProject"}

\* calculateSchedule fails on the current tasks: there are none, or the
\* scheduler throws on a cycle
CalculationFails ==
    \/ Len(project.tasks) = 0
    \/ validateNoCyclicDependencies(project.tasks)

\* C28: every task-changing operation of useProjectData leaves isCalculated
\* false; isCalculated is true after a step only if it was true before and
\* the step changed no task, or the step is a calculateSchedule that
\* succeeded; a calculateSchedule that fails leaves isCalculated false and an
\* error recorded.
C28_CalculatedOnlyWhileTasksUnchanged ==
    [][/\ op' \in TaskChangingOperations => ~project'.isCalculated
       /\ project'.isCalculated =>
              \/ project.isCalculated /\ project'.tasks = project.tasks
              \/ op' = "calculateSchedule" /\ ~CalculationFails
       /\ op' = "calculateSchedule" /\ CalculationFails =>
              ~project'.isCalculated /\ project'.error # Null]_vars

\* a task is deleted after a successful calculateSchedule: the paths of that
\* calculation are still in the state, isCalculated is false
C28_ChangedAfterCalculation ==
    /\ op = "deleteTask"
    /\ project.paths # <<>>
    /\ ~project.isCalculated

\* calculateSchedule has failed on a cycle between two tasks
C28_FailedOnCycle ==
    /\ op = "calculateSchedule"
    /\ Len(project.tasks) = 2
    /\ project.error = "Cyclic dependency detected in project graph"
    /\ ~project.isCalculated

\* calculateSchedule has succeeded on two tasks, one the predecessor of the
\* other
C28_Calculated ==
    /\ op = "calculateSchedule"
    /\ project.isCalculated
    /\ project.error = Null
    /\ Len(project.tasks) = 2
    /\ Len(project.paths) = 1

----------------------------------------------------------------------------
(* C29 *)

\* every predecessor taskId of the list names a task of the list
AllReferencesResolve(ts) ==
    \A k \in DOMAIN ts : PredIds(ts[k]) \subseteq TaskIds(ts)

\* no task of the list has the id or lists it as a predecessor
IdGone(ts, X) ==
    \A k \in DOMAIN ts : ts[k].id # X /\ X \notin PredIds(ts[k])

\* the deletion from before to after removed every id it removed for good
DeletedIdsGone(before, after) ==
    \A X \in TaskIds(before) \ TaskIds(after) : IdGone(after, X)

\* C29: after deleteTask(X) of useProjectData and after deleteCrashTask(X) of
\* the crashing context, on a task list whose predecessor references all
\* resolve, no remaining task has id X and no remaining task lists X as a
\* predecessor.
C29_DeletionKeepsReferencesResolvable ==
    [][/\ op' = "deleteTask" /\ AllReferencesResolve(project.tasks) =>
              DeletedIdsGone(project.tasks, project'.tasks)
       /\ op' = "deleteCrashTask" /\ AllReferencesResolve(ctx.crashTasks) =>
              DeletedIdsGone(ctx.crashTasks, ctx'.crashTasks)]_vars

\* C29, the part of useProjectData alone: deleteTask(X) leaves no task with
\* id X and no reference to X, whatever the list was
C29_DeleteTaskRemovesReferences ==
    [][op' = "deleteTask" =>
           /\ DeletedIdsGone(project.tasks, project'.tasks)
           /\ Len(project'.tasks) = Len(project.tasks) - 1
           /\ AllReferencesResolve(project.tasks) =>
                  AllReferencesResolve(project'.tasks)]_vars

\* deleteTask has removed a task that another task listed as a predecessor:
\* the remaining task of a calculated pair has no predecessor left
C29_DeletedAPredecessor ==
    /\ op = "deleteTask"
    /\ Len(project.tasks) = 1
    /\ Len(project.paths) = 1
    /\ Len(project.paths[1].tasks) = 2
    /\ project.tasks[1].id = project.paths[1].tasks[2]
    /\ project.tasks[1].predecessors = {}

\* deleteCrashTask has left one task, which lists a task that is not in
\* crashTasks
C29_DanglingCrashReference ==
    /\ op = "deleteCrashTask"
    /\ Len(ctx.crashTasks) = 1
    /\ ~AllReferencesResolve(ctx.crashTasks)

----------------------------------------------------------------------------
(* C30 *)

\* C30: whenever isCrashed is true, 0 <= currentIteration <= totalIterations
\* and totalIterations = costAnalysis.length - 1, so that
\* costAnalysis[currentIteration] exists, under every interleaving of the
\* slider's handlers, its interval callbacks, performCrashing and
\* clearCrashingData.
C30_ShownIterationExists ==
    ctx.isCrashed =>
        /\ 0 <= ctx.currentIteration
        /\ ctx.currentIteration <= ctx.totalIterations
        /\ ctx.totalIterations = Len(ctx.costAnalysis) - 1

\* the interval was started in a render of another run, or before the
\* slider was last unmounted
StaleTimer(t) ==
    \/ ~t.attached
    \/ t.totalIterations # ctx.totalIterations
    \/ t.costAnalysis # ctx.costAnalysis

\* C30, the part that holds: a step that takes the page from a state where
\* the shown iteration exists to one where it does not is the callback of an
\* interval started before the last performCrashing or clearCrashingData
C30_OnlyStaleTimersBreakIt ==
    [][(C30_ShownIterationExists /\ ~C30_ShownIterationExists') =>
           \E t \in slider.timers :
               /\ StaleTimer(t)
               /\ t.current < t.totalIterations
               /\ ctx'.currentIteration = t.current + 1
               /\ ctx.isCrashed]_vars

\* an interval started in an earlier run has moved the iteration past the
\* end of the costAnalysis of the current run
C30_StaleTimerPastTheEnd ==
    /\ pc = "ctx.idle"
    /\ ctx.isCrashed
    /\ ctx.currentIteration > ctx.totalIterations
    /\ ctx.currentIteration + 1 > Len(ctx.costAnalysis)
    /\ \E t \in slider.timers : t.current = ctx.currentIteration

====
